---- MODULE Spec2Model ----
(***************************************************************************)
(* Pilates Flow Studio: the exercise catalog, the bell-curve workout       *)
(* generator, smart swap, the JSON round trip (pilates_logic.py), the      *)
(* balance analysis, the progress statistics and the Streamlit session     *)
(* that drives them (app.py).                                              *)
(*                                                                         *)
(* Conventions of the translation:                                         *)
(*  - minutes are carried in tenths of a minute (3.0 min is 30, 2.5 min    *)
(*    is 25), so every float of the program is an exact integer here; the  *)
(*    phase ratios are carried in percent;                                 *)
(*  - Python lists are sequences; session indices stay 0-based as in the   *)
(*    code and are shifted by one where a sequence is indexed;             *)
(*  - characters outside ASCII in catalog strings are written as their     *)
(*    \uXXXX escape;                                                       *)
(*  - random.shuffle and random.choice are nondeterministic choices: an    *)
(*    operator that calls them denotes the set of its possible results.    *)
(***************************************************************************)
EXTENDS Integers, Sequences, FiniteSets, TLC

(***************************************************************************)
(* Bounds of the exploration.                                              *)
(***************************************************************************)
\* random.shuffle: the outcomes explored are the candidate list with any
\* one of its first ShuffleWidth elements moved to the front.
ShuffleWidth == 3
\* smart_swap calls per session
MaxSwaps == 2
\* rows appended to the workouts_log sheet
MaxSessions == 3
\* days the clock advances
MaxDay == 7
\* rows of the workouts_log sheet read by the recommendations
MaxHistory == 10
\* how far outside the plan a direct call of smart_swap places its index
IndexMargin == 1
\* in-place changes a caller makes to the lists of plan entries
MaxEdits == 1

(***************************************************************************)
(* Data model (pilates_logic.py)                                           *)
(***************************************************************************)
Exercise(slug, name, apparatus, category, phase, energy, default_springs, duration_min, cues, themes, image) ==
  [slug |-> slug, name |-> name, apparatus |-> apparatus, category |-> category,
   phase |-> phase, energy |-> energy, default_springs |-> default_springs,
   duration_min |-> duration_min, cues |-> cues, themes |-> themes,
   image |-> image]

\* dataclasses.asdict: a fresh dict with the fields in declaration order,
\* lists copied
to_dict(e) ==
  [slug |-> e.slug, name |-> e.name, apparatus |-> e.apparatus,
   category |-> e.category, phase |-> e.phase, energy |-> e.energy,
   default_springs |-> e.default_springs, duration_min |-> e.duration_min,
   cues |-> [i \in DOMAIN e.cues |-> e.cues[i]],
   themes |-> [i \in DOMAIN e.themes |-> e.themes[i]],
   image |-> e.image]

\* a slip: a shallow copy, dict(vars(self)), whose cues and themes are the
\* Exercise's own lists
ToDictSharesShallow(e) == {"cues", "themes"}

\* the fields of to_dict's result whose value is the very object the
\* Exercise holds: asdict builds every list anew, so none
ToDictShares(e) == {}

EXERCISE_DB ==
  <<
    Exercise("ref_footwork_parallel", "Footwork \\u2013 Parallel", "Reformer", "Footwork",
             "warmup", 1, "3 Red + 1 Blue", 30,
             <<"Heels together, toes apart", "Press evenly through all 10 toes", "Keep pelvis neutral \\u2013 no tucking">>,
             <<"Core", "Lower Body", "Full Body">>, "footwork_parallel.png"),
    Exercise("ref_footwork_v", "Footwork \\u2013 V Position", "Reformer", "Footwork",
             "warmup", 1, "3 Red + 1 Blue", 20,
             <<"Small V with heels touching", "Wrap outer hips", "Lengthen through the crown of the head">>,
             <<"Core", "Lower Body">>, "footwork_v.png"),
    Exercise("ref_footwork_wide", "Footwork \\u2013 Wide Second", "Reformer", "Footwork",
             "warmup", 2, "3 Red + 1 Blue", 20,
             <<"Wider than hip-width on the bar", "Track knees over second toe", "Feel the inner thigh connection">>,
             <<"Lower Body", "Flexibility">>, "footwork_wide.png"),
    Exercise("ref_footwork_toes", "Footwork \\u2013 On Toes", "Reformer", "Footwork",
             "warmup", 2, "3 Red + 1 Blue", 20,
             <<"Lift heels high", "Maintain ankle stability", "Press through the ball of the foot">>,
             <<"Lower Body", "Balance">>, "footwork_toes.png"),
    Exercise("ref_hundred_prep", "Hundred Prep", "Reformer", "Supine Abdominals",
             "warmup", 2, "1 Red", 20,
             <<"Chin to chest, eyes on belly", "Pump arms with control", "Breathe: inhale 5 counts, exhale 5 counts">>,
             <<"Core">>, "hundred_prep.png"),
    Exercise("ref_warmup_bridging", "Bridging", "Reformer", "Supine Hip Work",
             "warmup", 1, "2 Red", 30,
             <<"Articulate spine one vertebra at a time", "Press heels into bar", "Lengthen knees over toes at the top">>,
             <<"Core", "Lower Body", "Flexibility">>, "bridging.png"),
    Exercise("ref_ribcage_arms", "Ribcage Arms", "Reformer", "Arm Work",
             "warmup", 1, "1 Blue", 20,
             <<"Keep ribs anchored to the mat", "Arms float to ceiling then overhead", "Don't let the back arch">>,
             <<"Upper Body", "Core", "Flexibility">>, "ribcage_arms.png"),
    Exercise("ref_short_spine", "Short Spine Massage", "Reformer", "Supine Abdominals",
             "foundation", 3, "2 Red", 40,
             <<"Use the straps to guide legs overhead", "Roll down one bone at a time", "Keep the carriage still as you fold">>,
             <<"Core", "Flexibility", "Full Body">>, "short_spine.png"),
    Exercise("ref_coordination", "Coordination", "Reformer", "Supine Abdominals",
             "foundation", 3, "1 Red + 1 Blue", 30,
             <<"Curl up, extend arms and legs simultaneously", "Open-close legs while holding the curl", "Everything returns together">>,
             <<"Core", "Full Body">>, "coordination.png"),
    Exercise("ref_pulling_straps", "Pulling Straps", "Reformer", "Prone Back Extension",
             "foundation", 3, "1 Red", 30,
             <<"Lie prone on the box", "Pull straps alongside the body", "Lift chest with back muscles, not arms">>,
             <<"Upper Body", "Core">>, "pulling_straps.png"),
    Exercise("ref_backstroke", "Backstroke", "Reformer", "Supine Abdominals",
             "foundation", 3, "1 Red", 30,
             <<"Start in a ball position", "Reach arms and legs to ceiling then open", "Circle everything back to start">>,
             <<"Core", "Full Body">>, "backstroke.png"),
    Exercise("ref_long_stretch", "Long Stretch", "Reformer", "Plank / Full Body",
             "foundation", 3, "1 Red + 1 Blue", 30,
             <<"Plank position, hands on the bar", "Push out through heels", "Pull carriage home with abdominals">>,
             <<"Core", "Upper Body", "Full Body">>, "long_stretch.png"),
    Exercise("ref_elephant", "Elephant", "Reformer", "Standing Hip Work",
             "foundation", 2, "2 Red + 1 Blue", 30,
             <<"Round the spine, head between arms", "Push carriage back with legs", "Pull the carriage home with deep abs">>,
             <<"Core", "Flexibility", "Lower Body">>, "elephant.png"),
    Exercise("ref_knee_stretches_round", "Knee Stretches \\u2013 Round Back", "Reformer", "Kneeling Core",
             "foundation", 3, "2 Red", 25,
             <<"Kneel on carriage, hands on bar", "Round the spine like an angry cat", "Push and pull with control">>,
             <<"Core", "Full Body">>, "knee_stretches_round.png"),
    Exercise("ref_scooter", "Scooter", "Reformer", "Standing Hip Work",
             "foundation", 3, "1 Red + 1 Blue", 30,
             <<"One foot on platform, one on carriage", "Press standing leg back", "Keep hips level and square">>,
             <<"Lower Body", "Balance", "Core">>, "scooter.png"),
    Exercise("ref_mermaid", "Mermaid Stretch", "Reformer", "Lateral Flexion",
             "foundation", 2, "1 Red", 30,
             <<"Sit sideways, hand on bar", "Stretch over into a side bend", "Breathe into the top ribs">>,
             <<"Flexibility", "Core">>, "mermaid.png"),
    Exercise("ref_arm_circles_straps", "Arm Circles in Straps", "Reformer", "Arm Work",
             "foundation", 2, "1 Blue", 30,
             <<"Lie supine, arms in straps", "Circle arms down and around", "Keep shoulders stable on the mat">>,
             <<"Upper Body", "Core">>, "arm_circles_straps.png"),
    Exercise("ref_snake_twist", "Snake / Twist", "Reformer", "Plank / Full Body",
             "peak", 5, "1 Red + 1 Blue", 40,
             <<"Side plank on the reformer", "Push out and twist under", "Control the return \\u2013 no momentum">>,
             <<"Core", "Upper Body", "Full Body">>, "snake_twist.png"),
    Exercise("ref_control_front", "Control Front", "Reformer", "Plank / Full Body",
             "peak", 5, "1 Red", 35,
             <<"Stand on bar, hands on platform", "Push carriage out to plank", "Pull back with deep abdominal connection">>,
             <<"Core", "Upper Body", "Full Body">>, "control_front.png"),
    Exercise("ref_long_back_stretch", "Long Back Stretch", "Reformer", "Arm Work",
             "peak", 4, "1 Red + 1 Blue", 30,
             <<"Sit on carriage facing foot bar", "Hands on bar, lift and push out", "Tricep dip meets spine articulation">>,
             <<"Upper Body", "Core">>, "long_back_stretch.png"),
    Exercise("ref_star", "Star", "Reformer", "Lateral Flexion",
             "peak", 5, "1 Red", 30,
             <<"Side-lying on the box", "Top arm and leg reach long", "Balance and control are everything">>,
             <<"Core", "Balance", "Full Body">>, "star.png"),
    Exercise("ref_arabesque", "Arabesque on Reformer", "Reformer", "Standing Hip Work",
             "peak", 4, "1 Red + 1 Blue", 30,
             <<"Stand on carriage, one hand on bar", "Extend free leg behind", "Hinge from the hip with length">>,
             <<"Lower Body", "Balance", "Core">>, "arabesque.png"),
    Exercise("ref_tendon_stretch", "Tendon Stretch", "Reformer", "Plank / Full Body",
             "peak", 5, "2 Red", 30,
             <<"Stand on carriage, hands on bar", "Round down lifting hips high", "Push carriage back with feet, pull with abs">>,
             <<"Core", "Full Body">>, "tendon_stretch.png"),
    Exercise("ref_semi_circle", "Semi-Circle", "Reformer", "Supine Hip Work",
             "peak", 4, "1 Red + 1 Blue", 40,
             <<"Lie with shoulders on mat, feet on bar", "Articulate through bridge", "Circle the hips down-out-up-in">>,
             <<"Core", "Flexibility", "Lower Body">>, "semi_circle.png"),
    Exercise("ref_running", "Running on Reformer", "Reformer", "Footwork",
             "cooldown", 1, "3 Red", 30,
             <<"Alternate pressing heels under the bar", "Like jogging in place", "Find a smooth, even rhythm">>,
             <<"Lower Body", "Flexibility">>, "running.png"),
    Exercise("ref_pelvic_lift", "Pelvic Lift / Calf Raises", "Reformer", "Footwork",
             "cooldown", 1, "3 Red", 20,
             <<"Both heels under the bar", "Press up and lower with control", "Stretch the calves and Achilles">>,
             <<"Lower Body", "Flexibility">>, "pelvic_lift.png"),
    Exercise("ref_chest_expansion_kneel", "Chest Expansion \\u2013 Kneeling", "Reformer", "Arm Work",
             "cooldown", 2, "1 Red", 25,
             <<"Kneel facing the straps", "Pull arms back and hold", "Open across the collarbones">>,
             <<"Upper Body", "Flexibility">>, "chest_expansion_kneel.png"),
    Exercise("ref_hip_flexor_stretch", "Hip Flexor Stretch on Carriage", "Reformer", "Stretch",
             "cooldown", 1, "1 Blue", 30,
             <<"One knee on carriage, other foot on platform", "Let the carriage glide back", "Sink into the front of the hip">>,
             <<"Flexibility", "Lower Body">>, "hip_flexor_stretch.png"),
    Exercise("ref_mermaid_cooldown", "Mermaid Cooldown", "Reformer", "Lateral Flexion",
             "cooldown", 1, "1 Blue", 25,
             <<"Gentle side stretch", "Breathe deeply into the ribs", "Let gravity do the work">>,
             <<"Flexibility">>, "mermaid_cooldown.png"),
    Exercise("mat_breathing", "Pilates Breathing", "Mat", "Breathing",
             "warmup", 1, "N/A", 20,
             <<"Lateral thoracic breathing", "Expand ribs sideways on inhale", "Knit ribs together on exhale">>,
             <<"Core", "Flexibility">>, "mat_breathing.png"),
    Exercise("mat_pelvic_curl", "Pelvic Curl", "Mat", "Supine Hip Work",
             "warmup", 1, "N/A", 30,
             <<"Imprint, then roll up bone by bone", "Squeeze glutes at the top", "Roll down like laying a pearl necklace">>,
             <<"Core", "Lower Body", "Flexibility">>, "pelvic_curl.png"),
    Exercise("mat_spine_twist_supine", "Supine Spine Twist", "Mat", "Supine Abdominals",
             "warmup", 1, "N/A", 25,
             <<"Knees together, drop to one side", "Keep both shoulders on the mat", "Use abs to bring knees back to center">>,
             <<"Core", "Flexibility">>, "spine_twist_supine.png"),
    Exercise("mat_cat_cow", "Cat-Cow Stretch", "Mat", "Kneeling Core",
             "warmup", 1, "N/A", 20,
             <<"Hands under shoulders, knees under hips", "Round up into cat, then arch into cow", "Move with your breath">>,
             <<"Flexibility", "Core">>, "cat_cow.png"),
    Exercise("mat_hundred", "The Hundred", "Mat", "Supine Abdominals",
             "foundation", 3, "N/A", 30,
             <<"Curl up, legs at tabletop or extended", "Pump arms vigorously", "100 counts: inhale 5, exhale 5">>,
             <<"Core">>, "mat_hundred.png"),
    Exercise("mat_roll_up", "Roll Up", "Mat", "Supine Abdominals",
             "foundation", 3, "N/A", 30,
             <<"Arms overhead to start", "Peel up one vertebra at a time", "Reach past toes, then roll back down">>,
             <<"Core", "Flexibility">>, "mat_roll_up.png"),
    Exercise("mat_single_leg_circle", "Single Leg Circles", "Mat", "Supine Hip Work",
             "foundation", 2, "N/A", 30,
             <<"One leg to ceiling, other long on mat", "Circle the leg \\u2014 keep pelvis still", "5 each direction">>,
             <<"Core", "Lower Body", "Flexibility">>, "single_leg_circle.png"),
    Exercise("mat_single_leg_stretch", "Single Leg Stretch", "Mat", "Supine Abdominals",
             "foundation", 3, "N/A", 30,
             <<"Curl up, one knee in", "Switch legs with control", "Elbows wide, gaze at navel">>,
             <<"Core">>, "single_leg_stretch.png"),
    Exercise("mat_double_leg_stretch", "Double Leg Stretch", "Mat", "Supine Abdominals",
             "foundation", 3, "N/A", 30,
             <<"Everything reaches long", "Circle arms back and hug knees in", "Maintain the curl throughout">>,
             <<"Core", "Full Body">>, "double_leg_stretch.png"),
    Exercise("mat_swimming", "Swimming", "Mat", "Prone Back Extension",
             "foundation", 3, "N/A", 30,
             <<"Lie prone, arms and legs lifted", "Flutter opposite arm/leg", "Keep length \\u2014 don't crunch the low back">>,
             <<"Core", "Upper Body", "Full Body">>, "mat_swimming.png"),
    Exercise("mat_side_kick_series", "Side Kick Series", "Mat", "Side-Lying Hip Work",
             "foundation", 2, "N/A", 40,
             <<"Lie on side, legs slightly forward", "Front/back kicks with control", "Up/down lifts, circles">>,
             <<"Lower Body", "Core", "Balance">>, "side_kick_series.png"),
    Exercise("mat_spine_stretch", "Spine Stretch Forward", "Mat", "Seated Flexion",
             "foundation", 2, "N/A", 25,
             <<"Sit tall, legs wide, arms forward", "Round forward from the top of the head", "Stack back up to sitting">>,
             <<"Core", "Flexibility">>, "spine_stretch.png"),
    Exercise("mat_teaser", "Teaser", "Mat", "Supine Abdominals",
             "peak", 5, "N/A", 30,
             <<"Roll up to a V-sit", "Arms reach past toes", "Roll down with control \\u2014 the harder part">>,
             <<"Core", "Full Body">>, "mat_teaser.png"),
    Exercise("mat_boomerang", "Boomerang", "Mat", "Supine Abdominals",
             "peak", 5, "N/A", 35,
             <<"Roll over, switch legs, roll up to teaser", "Clasp hands behind back", "Lower with control">>,
             <<"Core", "Flexibility", "Full Body">>, "mat_boomerang.png"),
    Exercise("mat_control_balance", "Control Balance", "Mat", "Supine Abdominals",
             "peak", 5, "N/A", 30,
             <<"From rollover, split legs", "One leg to ceiling, hold ankle", "Switch with control">>,
             <<"Core", "Flexibility", "Balance">>, "control_balance.png"),
    Exercise("mat_push_up", "Pilates Push-Up", "Mat", "Plank / Full Body",
             "peak", 4, "N/A", 30,
             <<"Roll down to plank", "Three push-ups with elbows tight", "Walk hands back and roll up">>,
             <<"Upper Body", "Core", "Full Body">>, "mat_push_up.png"),
    Exercise("mat_jackknife", "Jackknife", "Mat", "Supine Abdominals",
             "peak", 5, "N/A", 30,
             <<"Roll over then shoot legs to ceiling", "Body in one diagonal line", "Roll down with control">>,
             <<"Core", "Full Body">>, "mat_jackknife.png"),
    Exercise("mat_seal", "Seal", "Mat", "Seated Flexion",
             "cooldown", 1, "N/A", 25,
             <<"Balance on sit bones, hold ankles", "Roll back and clap feet 3 times", "Roll up and clap 3 times \\u2014 playful!">>,
             <<"Core", "Flexibility">>, "mat_seal.png"),
    Exercise("mat_child_pose", "Rest Position / Child's Pose", "Mat", "Stretch",
             "cooldown", 1, "N/A", 20,
             <<"Knees wide, toes together", "Reach arms forward and breathe", "Let the spine release completely">>,
             <<"Flexibility">>, "mat_child_pose.png"),
    Exercise("mat_roll_down", "Standing Roll Down", "Mat", "Standing Stretch",
             "cooldown", 1, "N/A", 20,
             <<"Chin to chest, roll down vertebra by vertebra", "Hang at the bottom, breathe", "Rebuild the spine from the base up">>,
             <<"Flexibility", "Core">>, "mat_roll_down.png"),
    Exercise("mat_hip_circles", "Hip Circles Stretch", "Mat", "Supine Hip Work",
             "cooldown", 1, "N/A", 25,
             <<"Hug one knee to chest", "Circle the hip gently", "Release and switch sides">>,
             <<"Flexibility", "Lower Body">>, "mat_hip_circles.png"),
    Exercise("chair_footwork_seated", "Footwork \\u2013 Seated", "Chair", "Footwork",
             "warmup", 2, "1 High + 1 Low", 30,
             <<"Sit tall on the chair", "Press pedal down with control", "Resist on the way up">>,
             <<"Lower Body", "Core">>, "chair_footwork_seated.png"),
    Exercise("chair_pump_one_leg", "Single Leg Pump", "Chair", "Standing Hip Work",
             "foundation", 3, "1 High", 30,
             <<"Stand facing the chair", "One foot presses pedal", "Square hips, don't lean">>,
             <<"Lower Body", "Balance", "Core">>, "chair_pump_one_leg.png"),
    Exercise("chair_swan", "Swan on Chair", "Chair", "Prone Back Extension",
             "foundation", 3, "1 High + 1 Low", 35,
             <<"Lie prone over the chair seat", "Hands press pedal down", "Lift chest using back extensors">>,
             <<"Upper Body", "Core">>, "chair_swan.png"),
    Exercise("chair_pike", "Pike / Pull-Up", "Chair", "Plank / Full Body",
             "peak", 5, "1 High", 30,
             <<"Stand on pedal, hands on seat", "Pike up lifting hips to ceiling", "Control the pedal's return">>,
             <<"Core", "Upper Body", "Full Body">>, "chair_pike.png"),
    Exercise("chair_side_body_twist", "Side Body Twist", "Chair", "Lateral Flexion",
             "peak", 4, "1 Low", 30,
             <<"Sit sideways on the chair", "Press pedal while rotating", "Feel the oblique connection">>,
             <<"Core", "Flexibility">>, "chair_side_body_twist.png"),
    Exercise("chair_hamstring_press", "Hamstring Press Back", "Chair", "Standing Hip Work",
             "foundation", 3, "1 High", 30,
             <<"Stand facing away from chair", "Press pedal down behind you", "Keep standing leg strong and tall">>,
             <<"Lower Body", "Balance">>, "chair_hamstring_press.png"),
    Exercise("chair_stretch_forward", "Forward Stretch on Chair", "Chair", "Stretch",
             "cooldown", 1, "1 Low", 20,
             <<"Sit on the chair, feet on pedal", "Round forward pressing pedal gently", "Let gravity lengthen the spine">>,
             <<"Flexibility">>, "chair_stretch_forward.png"),
    Exercise("cad_roll_down_bar", "Roll Down with Push-Through Bar", "Cadillac", "Supine Abdominals",
             "warmup", 2, "Top Spring", 30,
             <<"Hold the bar, curl chin to chest", "Articulate down one bone at a time", "The spring assists \\u2014 use it wisely">>,
             <<"Core", "Flexibility">>, "cad_roll_down_bar.png"),
    Exercise("cad_leg_springs_series", "Leg Springs Series", "Cadillac", "Supine Hip Work",
             "foundation", 3, "Leg Springs", 50,
             <<"Supine with legs in springs", "Circles, frogs, walking", "Keep pelvis stable throughout">>,
             <<"Lower Body", "Core", "Flexibility">>, "cad_leg_springs.png"),
    Exercise("cad_monkey", "Monkey", "Cadillac", "Supine Hip Work",
             "foundation", 2, "Bottom Spring", 30,
             <<"Feet on push-through bar, knees bent", "Press bar to ceiling", "Articulate spine up into a bridge">>,
             <<"Core", "Lower Body", "Flexibility">>, "cad_monkey.png"),
    Exercise("cad_breathing_push_thru", "Breathing with Push-Through Bar", "Cadillac", "Seated Flexion",
             "foundation", 2, "Top Spring", 30,
             <<"Sit tall facing the bar", "Push through and round forward", "Stack spine to return">>,
             <<"Core", "Flexibility">>, "cad_breathing_push_thru.png"),
    Exercise("cad_cat_on_cadillac", "Cat Stretch", "Cadillac", "Kneeling Core",
             "peak", 4, "Top Spring", 35,
             <<"Kneel facing the tower", "Hold bar overhead, round and push through", "Deep flexion against the spring">>,
             <<"Core", "Flexibility", "Full Body">>, "cad_cat_stretch.png"),
    Exercise("cad_tower", "Tower", "Cadillac", "Supine Hip Work",
             "peak", 4, "Leg Springs", 40,
             <<"Feet in push-through bar", "Roll over then press legs to ceiling", "Articulate down one vertebra at a time">>,
             <<"Core", "Flexibility", "Full Body">>, "cad_tower.png"),
    Exercise("cad_hanging_back", "Hanging Back", "Cadillac", "Prone Back Extension",
             "peak", 5, "Top Spring", 30,
             <<"Hold fuzzy loops from the top", "Lean back into an arch", "Trust the springs, open the chest">>,
             <<"Upper Body", "Flexibility", "Core">>, "cad_hanging_back.png"),
    Exercise("cad_arm_springs", "Arm Springs \\u2013 Supine", "Cadillac", "Arm Work",
             "cooldown", 2, "Arm Springs", 30,
             <<"Lie supine holding arm springs", "Press arms to hips and lift back", "Control the spring's return">>,
             <<"Upper Body", "Core">>, "cad_arm_springs.png")
  >>

(***************************************************************************)
(* Generator engine                                                        *)
(***************************************************************************)
\* percent of the session per phase
PHASE_RATIOS ==
  [warmup |-> 20, foundation |-> 30, peak |-> 30, cooldown |-> 20]

\* a slip: peak listed before foundation
PHASE_ORDER_swapped == <<"warmup", "peak", "foundation", "cooldown">>

PHASE_ORDER == <<"warmup", "foundation", "peak", "cooldown">>

THEMES == <<"Core", "Flexibility", "Lower Body", "Upper Body", "Full Body", "Balance">>

APPARATUS_OPTIONS == <<"Reformer", "Mat", "Chair", "Cadillac", "Mixed">>

ENERGY_LEVELS ==
  [l \in {"Gentle (1-2)", "Moderate (2-3)", "Challenging (3-4)", "Intense (4-5)"} |->
     CASE l = "Gentle (1-2)" -> <<1, 2>>
       [] l = "Moderate (2-3)" -> <<2, 3>>
       [] l = "Challenging (3-4)" -> <<3, 4>>
       [] l = "Intense (4-5)" -> <<4, 5>>]

Range(s) == {s[i] : i \in DOMAIN s}

Min(a, b) == IF a <= b THEN a ELSE b

Max(a, b) == IF a >= b THEN a ELSE b

\* x in list
In(x, s) == \E i \in DOMAIN s : s[i] = x

\* list[:n]
Prefix(s, n) == SubSeq(s, 1, Min(n, Len(s)))

\* str.capitalize / str.lower on the phase names
capitalize(p) ==
  CASE p \in {"warmup", "Warmup"} -> "Warmup"
    [] p \in {"foundation", "Foundation"} -> "Foundation"
    [] p \in {"peak", "Peak"} -> "Peak"
    [] p \in {"cooldown", "Cooldown"} -> "Cooldown"
    [] OTHER -> p

lower(p) ==
  CASE p \in {"warmup", "Warmup"} -> "warmup"
    [] p \in {"foundation", "Foundation"} -> "foundation"
    [] p \in {"peak", "Peak"} -> "peak"
    [] p \in {"cooldown", "Cooldown"} -> "cooldown"
    [] OTHER -> p

get_exercises_for_apparatus(apparatus) ==
  IF apparatus = "Mixed"
    THEN EXERCISE_DB
    ELSE SelectSeq(EXERCISE_DB, LAMBDA e : e.apparatus = apparatus)

\* exercises a phase may borrow when the theme is narrow: extras[:3]
BackfillCount == 3

\* a slip: a phase with two themed exercises is backfilled as well
MinThemedInclusive == 2 + 1

\* a phase is backfilled when it has fewer themed exercises than this
MinThemed == 2

\* a slip: the extras of a phase are not checked against the themed list
ExtrasUnchecked(pool, themed, phase) ==
  SelectSeq(pool, LAMBDA e : e.phase = phase)

\* a slip: "e in themed" for "e not in themed"
ExtrasAlreadyThemed(pool, themed, phase) ==
  SelectSeq(pool, LAMBDA e : e.phase = phase /\ In(e, themed))

\* extras: the exercises of the phase the themed list does not hold yet
Extras(pool, themed, phase) ==
  SelectSeq(pool, LAMBDA e : e.phase = phase /\ ~In(e, themed))

\* the loop "for phase in PHASE_ORDER" over the themed list, from phase k on
RECURSIVE Backfill(_, _, _)
Backfill(pool, themed, k) ==
  IF k > Len(PHASE_ORDER) THEN themed
  ELSE LET phase == PHASE_ORDER[k]
           phase_themed == SelectSeq(themed, LAMBDA e : e.phase = phase)
           extras == Extras(pool, themed, phase)
       IN  Backfill(pool,
                    IF Len(phase_themed) < MinThemed
                      THEN themed \o Prefix(extras, BackfillCount)
                      ELSE themed,
                    k + 1)

\* the pool after the theme filter
ThemePool(pool, theme) ==
  IF theme # "Full Body"
    THEN LET themed == Backfill(pool, SelectSeq(pool, LAMBDA e : In(theme, e.themes)), 1)
         IN  IF themed # <<>> THEN themed ELSE pool
    ELSE pool

\* time_budget[phase], in tenths of a minute
TimeBudget(duration_minutes, phase) ==
  (duration_minutes * PHASE_RATIOS[phase]) \div 10

\* a slip: two minutes of overflow allowed
OverflowDouble == 10 + 10

\* "allow slight overflow": 1.0 minute
Overflow == 10

\* a slip: a single exercise in the band is enough to filter
MinEnergyFilteredOne == 2 - 1

\* the energy soft filter keeps the filtered list when it has this many
MinEnergyFiltered == 2

\* candidates of a phase, before the shuffle
Candidates(pool, phase, used_slugs, energy_min, energy_max) ==
  LET candidates == SelectSeq(pool, LAMBDA e : e.phase = phase /\ e.slug \notin used_slugs)
      energy_filtered ==
        SelectSeq(candidates, LAMBDA e : energy_min <= e.energy /\ e.energy <= energy_max)
  IN  IF phase \in {"foundation", "peak"} /\ Len(energy_filtered) >= MinEnergyFiltered
        THEN energy_filtered
        ELSE candidates

\* s with its i-th element moved to the front
MoveToFront(s, i) ==
  <<s[i]>> \o SubSeq(s, 1, i - 1) \o SubSeq(s, i + 1, Len(s))

\* random.shuffle(candidates): the orders explored
Shuffles(s) ==
  IF s = <<>> THEN {s}
  ELSE {MoveToFront(s, i) : i \in 1..Min(Len(s), ShuffleWidth)}

\* a slip: the time the phase already holds is left out of the test
AdmitsIgnoringTime(phase_time, ex, budget) == ex.duration_min <= budget + Overflow

\* a slip: the first exercise tried in a phase is admitted whatever its length
AdmitsFirst(phase_time, ex, budget) ==
  phase_time = 0 \/ phase_time + ex.duration_min <= budget + Overflow

\* the admission test of the greedy walk
Admits(phase_time, ex, budget) == phase_time + ex.duration_min <= budget + Overflow

\* the plan entry of an exercise in a slot labelled phase_label
Entry(ex, phase_label) ==
  LET d == to_dict(ex)
  IN  [f \in DOMAIN d \cup {"phase_label"} |->
         IF f = "phase_label" THEN phase_label ELSE d[f]]

\* a slip: the walk ends at the first exercise that does not fit
RECURSIVE PhaseWalkStopsAtRejection(_, _, _, _, _)
PhaseWalkStopsAtRejection(candidates, i, phase, budget, phase_time) ==
  IF i > Len(candidates) THEN <<>>
  ELSE LET ex == candidates[i]
       IN  IF Admits(phase_time, ex, budget)
             THEN <<Entry(ex, capitalize(phase))>>
                    \o PhaseWalkStopsAtRejection(candidates, i + 1, phase, budget,
                                                 phase_time + ex.duration_min)
             ELSE <<>>

\* "for ex in candidates" from position i on: the entries appended
RECURSIVE PhaseWalk(_, _, _, _, _)
PhaseWalk(candidates, i, phase, budget, phase_time) ==
  IF i > Len(candidates) THEN <<>>
  ELSE LET ex == candidates[i]
       IN  IF Admits(phase_time, ex, budget)
             THEN <<Entry(ex, capitalize(phase))>>
                    \o PhaseWalk(candidates, i + 1, phase, budget,
                                 phase_time + ex.duration_min)
             ELSE PhaseWalk(candidates, i + 1, phase, budget, phase_time)

Slugs(workout) == {workout[i].slug : i \in DOMAIN workout}

\* "for phase in PHASE_ORDER" from phase k on: the plans it can end with
RECURSIVE PhaseLoop(_, _, _, _, _, _, _)
PhaseLoop(pool, duration_minutes, energy_min, energy_max, k, workout, used_slugs) ==
  IF k > Len(PHASE_ORDER) THEN {workout}
  ELSE LET phase == PHASE_ORDER[k]
           budget == TimeBudget(duration_minutes, phase)
           candidates == Candidates(pool, phase, used_slugs, energy_min, energy_max)
       IN  UNION { LET admitted == PhaseWalk(shuffled, 1, phase, budget, 0)
                   IN  PhaseLoop(pool, duration_minutes, energy_min, energy_max, k + 1,
                                 workout \o admitted, used_slugs \cup Slugs(admitted))
                   : shuffled \in Shuffles(candidates) }

\* generate_workout: the plans it can return
generate_workout(duration_minutes, apparatus, theme, energy_label) ==
  LET band == IF energy_label \in DOMAIN ENERGY_LEVELS
                THEN ENERGY_LEVELS[energy_label] ELSE <<1, 5>>
      pool == ThemePool(get_exercises_for_apparatus(apparatus), theme)
  IN  PhaseLoop(pool, duration_minutes, band[1], band[2], 1, <<>>, {})


(***************************************************************************)
(* smart_swap                                                              *)
(***************************************************************************)
\* fallback tier: intensity within this distance of the current exercise
EnergyTolerance == 1

Abs(n) == IF n < 0 THEN -n ELSE n

\* Optional[dict]: None is the empty sequence, a dict d is <<d>>
None == <<>>

Some(d) == <<d>>

\* workout[index]: the 1-based position of the item Python reads, a negative
\* index counting from the end; 0 when the read raises IndexError
ListIndex(s, index) ==
  IF 0 <= index /\ index < Len(s) THEN index + 1
  ELSE IF -Len(s) <= index /\ index < 0 THEN Len(s) + index + 1
  ELSE 0

\* the call ended by an IndexError and returned nothing
IndexError == << <<>>, <<>> >>

\* a slip: the category tier does not exclude the slugs already in the plan
SwapCandidatesReuse(workout, index) ==
  LET current == workout[index + 1]
      used_slugs == Slugs(workout)
      candidates ==
        SelectSeq(EXERCISE_DB, LAMBDA e :
          /\ e.category = current.category
          /\ e.phase = lower(current.phase))
      broadened ==
        SelectSeq(EXERCISE_DB, LAMBDA e :
          /\ e.phase = lower(current.phase)
          /\ e.apparatus = current.apparatus
          /\ e.slug \notin used_slugs
          /\ Abs(e.energy - current.energy) <= EnergyTolerance)
  IN  IF candidates # <<>> THEN candidates ELSE broadened

\* a slip: the broadened tier does not compare the apparatus
SwapCandidatesAnyApparatus(workout, index) ==
  LET current == workout[index + 1]
      used_slugs == Slugs(workout)
      candidates ==
        SelectSeq(EXERCISE_DB, LAMBDA e :
          /\ e.category = current.category
          /\ e.phase = lower(current.phase)
          /\ e.slug \notin used_slugs)
      broadened ==
        SelectSeq(EXERCISE_DB, LAMBDA e :
          /\ e.phase = lower(current.phase)
          /\ e.slug \notin used_slugs
          /\ Abs(e.energy - current.energy) <= EnergyTolerance)
  IN  IF candidates # <<>> THEN candidates ELSE broadened

\* a slip: the broadened tier is added to the category tier, not kept for
\* the case that the category tier is empty
SwapCandidatesBothTiers(workout, index) ==
  LET current == workout[ListIndex(workout, index)]
      used_slugs == Slugs(workout)
      candidates ==
        SelectSeq(EXERCISE_DB, LAMBDA e :
          /\ e.category = current.category
          /\ e.phase = lower(current.phase)
          /\ e.slug \notin used_slugs)
      broadened ==
        SelectSeq(EXERCISE_DB, LAMBDA e :
          /\ e.phase = lower(current.phase)
          /\ e.apparatus = current.apparatus
          /\ e.slug \notin used_slugs
          /\ e.category # current.category
          /\ Abs(e.energy - current.energy) <= EnergyTolerance)
  IN  candidates \o broadened

\* a slip: the broadened tier forgets the slot's phase
SwapCandidatesAnyPhase(workout, index) ==
  LET current == workout[ListIndex(workout, index)]
      used_slugs == Slugs(workout)
      candidates ==
        SelectSeq(EXERCISE_DB, LAMBDA e :
          /\ e.category = current.category
          /\ e.phase = lower(current.phase)
          /\ e.slug \notin used_slugs)
      broadened ==
        SelectSeq(EXERCISE_DB, LAMBDA e :
          /\ e.apparatus = current.apparatus
          /\ e.slug \notin used_slugs
          /\ Abs(e.energy - current.energy) <= EnergyTolerance)
  IN  IF candidates # <<>> THEN candidates ELSE broadened

\* candidates of smart_swap for the slot at the index
SwapCandidates(workout, index) ==
  LET current == workout[ListIndex(workout, index)]
      used_slugs == Slugs(workout)
      candidates ==
        SelectSeq(EXERCISE_DB, LAMBDA e :
          /\ e.category = current.category
          /\ e.phase = lower(current.phase)
          /\ e.slug \notin used_slugs)
      broadened ==
        SelectSeq(EXERCISE_DB, LAMBDA e :
          /\ e.phase = lower(current.phase)
          /\ e.apparatus = current.apparatus
          /\ e.slug \notin used_slugs
          /\ Abs(e.energy - current.energy) <= EnergyTolerance)
  IN  IF candidates # <<>> THEN candidates ELSE broadened

\* a slip: the entry is labelled with the replacement's own phase
SwapEntryOwnPhase(replacement, current) == Entry(replacement, replacement.phase)

\* the entry smart_swap builds: the replacement under the slot's phase_label
SwapEntry(replacement, current) == Entry(replacement, current.phase_label)

\* smart_swap(workout, index): the values it can return
smart_swap(workout, index) ==
  IF ListIndex(workout, index) = 0 THEN {IndexError}
  ELSE LET current == workout[ListIndex(workout, index)]
           candidates == SwapCandidates(workout, index)
       IN  IF candidates = <<>> THEN {None}
           ELSE {Some(SwapEntry(replacement, current)) :
                   replacement \in Range(candidates)}

\* a slip: smart_swap writes its first candidate into the slot itself
smart_swap_workout_written(workout, index) ==
  LET candidates == SwapCandidates(workout, index)
      current == workout[ListIndex(workout, index)]
  IN  IF candidates = <<>> THEN workout
      ELSE [workout EXCEPT ![ListIndex(workout, index)] =
              SwapEntry(candidates[1], current)]

\* the list passed to smart_swap as the call leaves it: no statement of
\* smart_swap assigns to the list or to its entries
smart_swap_workout(workout, index) == workout

(***************************************************************************)
(* The Streamlit session (app.py)                                          *)
(***************************************************************************)
VARIABLES
  user,           \* the sidebar's selected user profile
  form,           \* the generator form: duration, apparatus, difficulty, theme, energy
  workout,        \* st.session_state.workout; None and [] are both <<>>
  workout_meta,   \* st.session_state.workout_meta
  view,           \* st.session_state.view
  current_index,  \* st.session_state.current_index (0-based)
  swaps,          \* smart_swap calls made so far
  swap_result,    \* what the last smart_swap call returned
  workout_rated,  \* st.session_state.workout_rated
  log,            \* rows of the workouts_log sheet
  today,          \* the day number of the clock
  favorites,      \* st.session_state.favorites
  workout_ref,    \* which list object st.session_state.workout is
  ai_card,        \* the AI suggestion on screen with its "Use this" button
  catalog_writes  \* the writes that reached a list of an EXERCISE_DB record

vars == <<user, form, workout, workout_meta, view, current_index, swaps, swap_result,
          workout_rated, log, today, favorites, workout_ref, ai_card, catalog_writes>>

\* the slider of the generator form: 30 to 90 in steps of 5
DurationMin == 30

DurationMax == 90

DurationStep == 5

Durations == {d \in DurationMin..DurationMax : (d - DurationMin) % DurationStep = 0}

DIFFICULTY_OPTIONS == <<"All Levels", "Beginner", "Intermediate", "Advanced">>

\* every request the form can hold, at the default difficulty
AllForms ==
  [duration : Durations, apparatus : Range(APPARATUS_OPTIONS),
   difficulty : {"All Levels"}, theme : Range(THEMES),
   energy : DOMAIN ENERGY_LEVELS]

\* the requests of the explored sessions: plans of the two sparse apparatus
SessionForms ==
  { [duration |-> 50, apparatus |-> "Cadillac", difficulty |-> "All Levels",
     theme |-> "Full Body", energy |-> "Moderate (2-3)"],
    [duration |-> 30, apparatus |-> "Cadillac", difficulty |-> "Intermediate",
     theme |-> "Balance", energy |-> "Moderate (2-3)"],
    [duration |-> 30, apparatus |-> "Chair", difficulty |-> "All Levels",
     theme |-> "Core", energy |-> "Intense (4-5)"] }

\* the sidebar's user profiles
USER_PROFILES == <<"Alyssa", "Ted (Test)">>

\* the widgets' first values and DEFAULTS
SessionDefaults ==
  /\ user = USER_PROFILES[1]
  /\ workout = <<>>
  /\ workout_meta = [k \in {} |-> ""]
  /\ view = "generator"
  /\ current_index = 0
  /\ swaps = 0
  /\ swap_result = None
  /\ workout_rated = FALSE
  /\ log = <<>>
  /\ today = 0
  /\ favorites = <<>>
  /\ workout_ref = 0
  /\ ai_card = None
  /\ catalog_writes = {}

Init ==
  /\ form \in SessionForms
  /\ SessionDefaults

InitGen ==
  /\ form \in AllForms
  /\ SessionDefaults

\* dict.get(key, default)
Get(d, k, default) == IF k \in DOMAIN d THEN d[k] ELSE default

\* the difficulty filter of the Generate button
DifficultyFilter(plan, difficulty) ==
  IF difficulty # "All Levels"
    THEN LET diff_lower ==
               CASE difficulty = "Beginner" -> "beginner"
                 [] difficulty = "Intermediate" -> "intermediate"
                 [] difficulty = "Advanced" -> "advanced"
             filtered ==
               SelectSeq(plan, LAMBDA ex : Get(ex, "level", "all") \in {diff_lower, "all"})
         IN  IF Len(filtered) >= 4 THEN filtered ELSE plan
    ELSE plan

\* the list objects the saved favorites hold as their "exercises"
FavoriteRefs(favs) == {favs[k].ref : k \in DOMAIN favs}

\* a list object created now: it is none of those the favorites hold (the
\* first free name)
NewList(favs) ==
  CHOOSE r \in 0..Len(favs) :
    r \notin FavoriteRefs(favs) /\ \A q \in 0..(r - 1) : q \in FavoriteRefs(favs)

\* the favorites once the list object ref holds plan: those whose "exercises"
\* is that object show it
SeenByFavorites(favs, ref, plan) ==
  [k \in DOMAIN favs |->
     IF favs[k].ref = ref THEN [favs[k] EXCEPT !.exercises = plan] ELSE favs[k]]

\* the condition of the player view
PlayerShown == view = "player" /\ workout # <<>>

\* the player view got past "ex = workout[idx]" and drew its buttons
PlayerRendered == PlayerShown /\ current_index \in 0..(Len(workout) - 1)

\* sidebar: Select User Profile
SelectUser ==
  /\ \E u \in Range(USER_PROFILES) : u # user /\ user' = u
  /\ ai_card' = None
  /\ UNCHANGED <<form, workout, workout_meta, view, current_index, swaps,
                 swap_result, workout_rated, log, today,
                 favorites, workout_ref, catalog_writes>>

\* generator view: the Generate Workout button
Generate ==
  /\ view = "generator"
  /\ \E plan \in generate_workout(form.duration, form.apparatus, form.theme, form.energy) :
       workout' = DifficultyFilter(plan, form.difficulty)
  /\ current_index' = 0
  /\ workout_rated' = FALSE
  /\ workout_meta' = [theme |-> form.theme, apparatus |-> form.apparatus,
                      duration |-> form.duration, energy |-> form.energy,
                      difficulty |-> form.difficulty]
  /\ workout_ref' = NewList(favorites)
  /\ ai_card' = None
  /\ UNCHANGED <<user, form, view, swaps, swap_result, log, today,
                 favorites, catalog_writes>>

\* generator view: Random Swap tab, "Swap randomly" on the card at index i
SwapRandomly(i) ==
  /\ view = "generator"
  /\ workout # <<>>
  /\ i \in 0..(Len(workout) - 1)
  /\ swaps < MaxSwaps
  /\ \E new_ex \in smart_swap(workout, i) :
       /\ swap_result' = new_ex
       /\ workout' = IF new_ex # None
                       THEN [smart_swap_workout(workout, i) EXCEPT ![i + 1] = new_ex[1]]
                       ELSE smart_swap_workout(workout, i)
  /\ swaps' = swaps + 1
  /\ favorites' = SeenByFavorites(favorites, workout_ref, workout')
  /\ ai_card' = None
  /\ UNCHANGED <<user, form, workout_meta, view, current_index, workout_rated, log, today,
                 workout_ref, catalog_writes>>

\* generator view: Start Workout
StartWorkout ==
  /\ view = "generator"
  /\ workout # <<>>
  /\ view' = "player"
  /\ current_index' = 0
  /\ ai_card' = None
  /\ UNCHANGED <<user, form, workout, workout_meta, swaps, swap_result, workout_rated, log, today,
                 favorites, workout_ref, catalog_writes>>

\* player view: Prev
PrevExercise ==
  /\ PlayerRendered
  /\ current_index # 0
  /\ current_index' = current_index - 1
  /\ ai_card' = None
  /\ UNCHANGED <<user, form, workout, workout_meta, view, swaps, swap_result, workout_rated, log, today,
                 favorites, workout_ref, catalog_writes>>

\* player view: Next
NextExercise ==
  /\ PlayerRendered
  /\ current_index < Len(workout) - 1
  /\ current_index' = current_index + 1
  /\ ai_card' = None
  /\ UNCHANGED <<user, form, workout, workout_meta, view, swaps, swap_result, workout_rated, log, today,
                 favorites, workout_ref, catalog_writes>>

\* player view: Finish, shown on the last exercise in place of Next
Finish ==
  /\ PlayerRendered
  /\ ~(current_index < Len(workout) - 1)
  /\ view' = "finish"
  /\ ai_card' = None
  /\ UNCHANGED <<user, form, workout, workout_meta, current_index, swaps, swap_result,
                 workout_rated, log, today,
                 favorites, workout_ref, catalog_writes>>

\* player view: Swap This Exercise
SwapThisExercise ==
  /\ PlayerRendered
  /\ swaps < MaxSwaps
  /\ \E new_ex \in smart_swap(workout, current_index) :
       /\ swap_result' = new_ex
       /\ workout' = IF new_ex # None
                       THEN [smart_swap_workout(workout, current_index)
                               EXCEPT ![current_index + 1] = new_ex[1]]
                       ELSE smart_swap_workout(workout, current_index)
  /\ swaps' = swaps + 1
  /\ favorites' = SeenByFavorites(favorites, workout_ref, workout')
  /\ ai_card' = None
  /\ UNCHANGED <<user, form, workout_meta, view, current_index, workout_rated, log, today,
                 workout_ref, catalog_writes>>

\* player view: Back to Workout Overview
BackToOverview ==
  /\ PlayerRendered
  /\ view' = "generator"
  /\ ai_card' = None
  /\ UNCHANGED <<user, form, workout, workout_meta, current_index, swaps, swap_result, workout_rated, log, today,
                 favorites, workout_ref, catalog_writes>>


(***************************************************************************)
(* workout_to_json / json_to_workout                                       *)
(*                                                                         *)
(* A JSON text is the sequence of its tokens. A string literal carries its *)
(* string; a number literal carries its integer part and the digits after  *)
(* the point (none for an int, "3.0" for the float 3.0), which is how      *)
(* json.loads tells an int from a float.                                   *)
(***************************************************************************)
Punct(c) == [t |-> c]

StrLit(s) == [t |-> "string", s |-> s]

NumLit(i, f) == [t |-> "number", i |-> i, f |-> f]

\* the keys of a plan entry in insertion order (asdict, then phase_label),
\* with the Python type of their values
EntryKeys ==
  << <<"slug", "str">>, <<"name", "str">>, <<"apparatus", "str">>,
     <<"category", "str">>, <<"phase", "str">>, <<"energy", "int">>,
     <<"default_springs", "str">>, <<"duration_min", "float">>,
     <<"cues", "list">>, <<"themes", "list">>, <<"image", "str">>,
     <<"phase_label", "str">> >>

RECURSIVE ConcatAll(_, _)
ConcatAll(seqs, i) ==
  IF i > Len(seqs) THEN <<>> ELSE seqs[i] \o ConcatAll(seqs, i + 1)

\* items joined by the item separator
JoinItems(items) ==
  ConcatAll([i \in DOMAIN items |->
               IF i = 1 THEN items[i] ELSE <<Punct(",")>> \o items[i]], 1)

\* int.__repr__ and float.__repr__ of a value in tenths
EncodeInt(n) == <<NumLit(n, <<>>)>>

EncodeFloat(tenths) == <<NumLit(tenths \div 10, <<tenths % 10>>)>>

EncodeStr(s) == <<StrLit(s)>>

EncodeList(l) ==
  <<Punct("[")>> \o JoinItems([i \in DOMAIN l |-> EncodeStr(l[i])]) \o <<Punct("]")>>

EncodeValue(v, type) ==
  CASE type = "str" -> EncodeStr(v)
    [] type = "int" -> EncodeInt(v)
    [] type = "float" -> EncodeFloat(v)
    [] type = "list" -> EncodeList(v)

\* a slip: only the dataclass fields are written, phase_label is left out
EncodeDictFieldsOnly(d) ==
  LET present == SelectSeq(EntryKeys, LAMBDA k : k[1] \in DOMAIN d /\ k[1] # "phase_label")
  IN  <<Punct("{")>>
        \o JoinItems([i \in DOMAIN present |->
                        <<StrLit(present[i][1]), Punct(":")>>
                          \o EncodeValue(d[present[i][1]], present[i][2])])
        \o <<Punct("}")>>

EncodeDict(d) ==
  LET present == SelectSeq(EntryKeys, LAMBDA k : k[1] \in DOMAIN d)
  IN  <<Punct("{")>>
        \o JoinItems([i \in DOMAIN present |->
                        <<StrLit(present[i][1]), Punct(":")>>
                          \o EncodeValue(d[present[i][1]], present[i][2])])
        \o <<Punct("}")>>

\* json.dumps(workout, default=str)
workout_to_json(plan) ==
  <<Punct("[")>> \o JoinItems([i \in DOMAIN plan |-> EncodeDict(plan[i])]) \o <<Punct("]")>>

\* The decoder reads the texts workout_to_json writes: an array of objects
\* whose values are scalars or arrays of scalars.
\* a number literal with digits after the point is a float (in tenths)
ParseNumber(tok) ==
  IF tok.f = <<>> THEN tok.i ELSE tok.i * 10 + tok.f[1]

ParseScalar(tok) ==
  IF tok.t = "string" THEN tok.s ELSE ParseNumber(tok)

\* the positions from lo to hi whose token kind is in kinds, ascending
Positions(js, lo, hi, kinds) ==
  SelectSeq([q \in 1..(hi - lo + 1) |-> lo + q - 1], LAMBDA p : js[p].t \in kinds)

\* the first position after p whose token is c
Closing(js, p, c) == Positions(js, p + 1, Len(js), {c})[1]

\* the value that starts at position p
ParseValue(js, p) ==
  IF js[p].t = "["
    THEN LET items == Positions(js, p + 1, Closing(js, p, "]") - 1, {"string", "number"})
         IN  [i \in DOMAIN items |-> ParseScalar(js[items[i]])]
    ELSE ParseScalar(js[p])

\* the object that opens at position p; a repeated key keeps its last value
ParseObject(js, p) ==
  LET close == Closing(js, p, "}")
      keys == {q \in (p + 1)..(close - 1) : js[q + 1].t = ":"}
      Last(k) == CHOOSE q \in keys :
                   js[q].s = k /\ \A r \in keys : js[r].s = k => r <= q
  IN  [k \in {js[q].s : q \in keys} |-> ParseValue(js, Last(k) + 2)]

\* json.loads(json_str)
json_to_workout(json_str) ==
  LET opens == Positions(json_str, 1, Len(json_str), {"{"})
  IN  [i \in DOMAIN opens |-> ParseObject(json_str, opens[i])]


(***************************************************************************)
(* Workout balance analysis (app.py)                                       *)
(***************************************************************************)
\* Counter(keys): the count of every key that occurs
Counter(keys) ==
  [k \in Range(keys) |-> Cardinality({i \in DOMAIN keys : keys[i] = k})]

\* the penalties of the score
PenaltyPhase == 10

PenaltyTheme == 15

PenaltyRegion == 10

PenaltyCore == 15

PenaltyVariety == 10

\* a slip: a phase counted as light below a fifth of the entries
MinPhasePctDouble == 10 + 10

\* a phase is light below this percentage of the entries
MinPhasePct == 10

\* fewer distinct categories than this is low variety
MinCategories == 3

\* the checks in the order of the code: <<triggered, note, penalty>>
BalanceChecks(plan, theme) ==
  LET phases == Counter([i \in DOMAIN plan |-> capitalize(Get(plan[i], "phase_label", ""))])
      categories == Counter([i \in DOMAIN plan |-> Get(plan[i], "category", "Unknown")])
      themes_hit == UNION {Range(Get(plan[i], "themes", <<>>)) : i \in DOMAIN plan}
      total == Len(plan)
      Tagged(tag) == Cardinality({i \in DOMAIN plan : In(tag, Get(plan[i], "themes", <<>>))})
  IN  << <<Get(phases, "Warmup", 0) * 100 < MinPhasePct * total,
           "\\u26a0\\ufe0f Light on warmup \\u2014 consider adding a prep exercise",
           PenaltyPhase>>,
         <<Get(phases, "Cooldown", 0) * 100 < MinPhasePct * total,
           "\\u26a0\\ufe0f Light on cooldown \\u2014 add a stretch or mobility move",
           PenaltyPhase>>,
         <<theme # "Full Body" /\ theme \notin themes_hit,
           "\\u26a0\\ufe0f Your theme '" \o theme
             \o "' isn't well represented \\u2014 try swapping in themed exercises",
           PenaltyTheme>>,
         <<Tagged("Upper Body") = 0,
           "\\ud83d\\udca1 No upper body work \\u2014 consider adding arms or pulling straps",
           PenaltyRegion>>,
         <<Tagged("Lower Body") = 0,
           "\\ud83d\\udca1 No lower body work \\u2014 consider adding footwork or hip exercises",
           PenaltyRegion>>,
         <<Tagged("Core") = 0,
           "\\ud83d\\udca1 No core focus \\u2014 the center of Pilates! Add abdominal work",
           PenaltyCore>>,
         <<Cardinality(DOMAIN categories) < MinCategories,
           "\\ud83d\\udca1 Low variety \\u2014 try exercises from different categories for a more complete session",
           PenaltyVariety>> >>

RECURSIVE SumPenalties(_, _)
SumPenalties(checks, i) ==
  IF i > Len(checks) THEN 0
  ELSE (IF checks[i][1] THEN checks[i][3] ELSE 0) + SumPenalties(checks, i + 1)

\* score = max(0, min(100, score))
ClampScore(score) == Max(0, Min(100, score))

\* a slip: the penalties are added and the clamp is left out
BalanceScoreAdded(checks) == 100 + SumPenalties(checks, 1)

\* score = 100, less every triggered penalty, clamped
BalanceScore(checks) == ClampScore(100 - SumPenalties(checks, 1))

analyze_workout_balance(plan, theme) ==
  IF plan = <<>>
    THEN [score |-> 0, notes |-> <<>>, categories |-> [k \in {} |-> 0]]
    ELSE LET checks == BalanceChecks(plan, theme)
             triggered == SelectSeq(checks, LAMBDA c : c[1])
             notes == [i \in DOMAIN triggered |-> triggered[i][2]]
             Tagged(tag) ==
               Cardinality({i \in DOMAIN plan : In(tag, Get(plan[i], "themes", <<>>))})
         IN  [score |-> BalanceScore(checks),
              notes |-> IF notes = <<>>
                          THEN <<"\\u2705 Well-balanced workout! Great mix of phases, body regions, and categories.">>
                          ELSE notes,
              phases |-> Counter([i \in DOMAIN plan |->
                                    capitalize(Get(plan[i], "phase_label", ""))]),
              categories |-> Counter([i \in DOMAIN plan |->
                                        Get(plan[i], "category", "Unknown")]),
              body_regions |-> [k \in {"Upper Body", "Lower Body", "Core"} |-> Tagged(k)],
              themes_covered |->
                UNION {Range(Get(plan[i], "themes", <<>>)) : i \in DOMAIN plan}]

(***************************************************************************)
(* The workouts_log sheet and the progress statistics (app.py)             *)
(*                                                                         *)
(* A row's Date is the day number of the clock when it was appended; the   *)
(* time of day plays no part in the statistics. avg_rating is carried in   *)
(* tenths.                                                                 *)
(***************************************************************************)
Users == Range(USER_PROFILES)

\* save_workout with the sheet connected: the row it appends (it returns
\* True); the clock's minute is dropped, the statistics read the date only
save_workout(for_user, w_theme, w_duration, workout_json, rating, notes) ==
  /\ Len(log) < MaxSessions
  /\ log' = Append(log, [Date |-> today, User |-> for_user, Theme |-> w_theme,
                         Duration |-> w_duration, Full_JSON_Data |-> workout_json,
                         Rating |-> rating, Notes |-> notes])

\* the default of save_workout's rating parameter
DefaultRating == 0

\* a day passes
Tick ==
  /\ today < MaxDay
  /\ today' = today + 1
  /\ UNCHANGED <<user, form, workout, workout_meta, view, current_index, swaps,
                 swap_result, workout_rated, log,
                 favorites, workout_ref, catalog_writes, ai_card>>

\* sorted(set(...)) of a set of day numbers
RECURSIVE SortedSeq(_)
SortedSeq(S) ==
  IF S = {} THEN <<>>
  ELSE LET m == CHOOSE x \in S : \A y \in S : x <= y
       IN  <<m>> \o SortedSeq(S \ {m})

RECURSIVE Sum(_, _)
Sum(s, i) == IF i > Len(s) THEN 0 ELSE s[i] + Sum(s, i + 1)

\* round(sum / n, 1) in tenths: to nearest, a tie to the even tenth
\* (a tie is a mean ending in .25 or .75 for fewer than 20 ratings, which
\* a float holds exactly)
RoundMean(sum, n) ==
  LET q == (10 * sum) \div n
      r == (10 * sum) % n
  IN  IF 2 * r < n THEN q
      ELSE IF 2 * r > n THEN q + 1
      ELSE IF q % 2 = 0 THEN q ELSE q + 1

\* the gap test written "diff < 3"
StreakGapExclusive == 3 - 1

\* a gap of up to this many days keeps a streak
StreakGap == 3

\* the best-streak loop "for i in range(len(unique_dates) - 1, 0, -1)" from
\* the 0-based index i on, then the max after the loop
RECURSIVE BestStreakLoop(_, _, _, _)
BestStreakLoop(unique_dates, i, best_streak, streak) ==
  IF i < 1 THEN Max(best_streak, streak)
  ELSE LET diff == unique_dates[i + 1] - unique_dates[i]
       IN  IF diff <= StreakGap
             THEN BestStreakLoop(unique_dates, i - 1, best_streak, streak + 1)
             ELSE BestStreakLoop(unique_dates, i - 1, Max(best_streak, streak), 1)

\* the current-streak loop, which breaks at the first larger gap
\* a slip: the walk goes on counting the close pairs behind a break
RECURSIVE CurrentStreakLoopNoBreak(_, _, _)
CurrentStreakLoopNoBreak(unique_dates, i, current_streak) ==
  IF i < 1 THEN current_streak
  ELSE LET diff == unique_dates[i + 1] - unique_dates[i]
       IN  CurrentStreakLoopNoBreak(unique_dates, i - 1,
             IF diff <= StreakGap THEN current_streak + 1 ELSE current_streak)

RECURSIVE CurrentStreakLoop(_, _, _)
CurrentStreakLoop(unique_dates, i, current_streak) ==
  IF i < 1 THEN current_streak
  ELSE LET diff == unique_dates[i + 1] - unique_dates[i]
       IN  IF diff <= StreakGap
             THEN CurrentStreakLoop(unique_dates, i - 1, current_streak + 1)
             ELSE current_streak

\* the calendar date of day number 0 of the clock: Thursday 29 October
\* (date.weekday() counts Monday as 0)
Epoch == [weekday |-> 3, day |-> 29, days_in_month |-> 31]

\* date.weekday() of a day number
Weekday(d) == (Epoch.weekday + d) % 7

\* date.day of a day number, for the days of the epoch's month and the next
DayOfMonth(d) ==
  IF Epoch.day + d <= Epoch.days_in_month
    THEN Epoch.day + d ELSE Epoch.day + d - Epoch.days_in_month

\* today - timedelta(days=today.weekday())
WeekStart(now) == now - Weekday(now)

\* today.replace(day=1)
MonthStart(now) == now - (DayOfMonth(now) - 1)

\* a slip: this_week and this_month summed over the rows' dates, not over
\* unique_dates
CountedDatesAll(user_df) == [i \in DOMAIN user_df |-> user_df[i].Date]

\* the dates this_week and this_month are summed over: unique_dates
CountedDates(user_df) == SortedSeq({user_df[i].Date : i \in DOMAIN user_df})

calculate_progress_stats(history_df, for_user, now) ==
  LET user_df == SelectSeq(history_df, LAMBDA row : row.User = for_user)
      durations == [i \in DOMAIN user_df |-> user_df[i].Duration]
      ratings == [i \in DOMAIN user_df |-> user_df[i].Rating]
      unique_dates == SortedSeq({user_df[i].Date : i \in DOMAIN user_df})
      n == Len(unique_dates)
      counted == CountedDates(user_df)
      stats == [total_workouts |-> 0, total_minutes |-> 0, avg_rating |-> 0,
                current_streak |-> 0, best_streak |-> 0, this_week |-> 0,
                this_month |-> 0]
  IN  IF history_df = <<>> \/ user_df = <<>> THEN stats
      ELSE [total_workouts |-> Len(user_df),
            total_minutes |-> Sum(durations, 1),
            avg_rating |-> IF ratings # <<>>
                             THEN RoundMean(Sum(ratings, 1), Len(ratings)) ELSE 0,
            current_streak |->
              IF n > 0 /\ now - unique_dates[n] <= StreakGap
                THEN CurrentStreakLoop(unique_dates, n - 1, 1) ELSE 0,
            best_streak |-> BestStreakLoop(unique_dates, n - 1, 0, 1),
            this_week |->
              Cardinality({i \in DOMAIN counted : counted[i] >= WeekStart(now)}),
            this_month |->
              Cardinality({i \in DOMAIN counted : counted[i] >= MonthStart(now)})]


\* generator view: Save to History, which passes no rating
SaveToHistory ==
  /\ view = "generator"
  /\ workout # <<>>
  /\ LET w_theme == Get(workout_meta, "theme", "Full Body")
         w_duration == Get(workout_meta, "duration", 0)
         workout_json == workout_to_json(workout)
     IN  save_workout(user, w_theme, w_duration, workout_json, DefaultRating, "")
  /\ ai_card' = None
  /\ UNCHANGED <<user, form, workout, workout_meta, view, current_index, swaps,
                 swap_result, workout_rated, today,
                 favorites, workout_ref, catalog_writes>>

\* the rating slider of the finish view
RatingMin == 1

RatingMax == 5

\* finish view: Save & Rate, offered until the session is rated
SaveAndRate ==
  /\ view = "finish"
  /\ workout # <<>>
  /\ ~workout_rated
  /\ \E rating \in RatingMin..RatingMax :
       LET total_time == Sum([i \in DOMAIN workout |-> workout[i].duration_min], 1)
       IN  save_workout(user, workout[1].themes[1], total_time \div 10,
                        workout_to_json(workout), rating, "")
  /\ workout_rated' = TRUE
  /\ ai_card' = None
  /\ UNCHANGED <<user, form, workout, workout_meta, view, current_index, swaps,
                 swap_result, today,
                 favorites, workout_ref, catalog_writes>>

(***************************************************************************)
(* Smart recommendations (app.py)                                          *)
(* A message is the record of its rule, the names it lists and the         *)
(* percentage it prints (0 where the text has none).                       *)
(***************************************************************************)
Message(rule, names, pct) == [rule |-> rule, names |-> names, pct |-> pct]

core_apparatus == <<"Reformer", "Mat", "Chair", "Cadillac">>

key_themes == <<"Core", "Flexibility", "Upper Body", "Lower Body">>

\* the thresholds of the rules
VarietyMinSessions == 3
VarietyPct == 65
ProgressionSessions == 5
MatSessions == 10
\* a slip: the rotation tip given from the second session on
RotationMinSessionsEarly == 3 - 1
RotationMinSessions == 3

\* a slip: the rotation tip withdrawn after the third session
RotationMaxSessionsShort == 5 - 1

RotationMaxSessions == 10
MaxRecs == 5

\* the apparatus a row contributes: that of the first exercise of its plan,
\* nothing for an empty plan (a sheet written by save_workout holds lists);
\* the list is non-empty exactly when its JSON holds an object
RowApparatus(row) ==
  LET exercises == json_to_workout(row.Full_JSON_Data)
  IN  IF Positions(row.Full_JSON_Data, 1, Len(row.Full_JSON_Data), {"{"}) # <<>>
        THEN <<exercises[1].apparatus>> ELSE <<>>

\* Counter.most_common(1): the first inserted key among the most frequent
MostCommon(keys) ==
  LET counts == Counter(keys)
      first == CHOOSE i \in DOMAIN keys :
                 /\ \A j \in DOMAIN keys : counts[keys[j]] <= counts[keys[i]]
                 /\ \A j \in 1..(i - 1) : counts[keys[j]] < counts[keys[i]]
  IN  IF keys = <<>> THEN <<>> ELSE << <<keys[first], counts[keys[first]]>> >>

\* f"{top_count / total_sessions * 100:.0f}": to the nearest integer, a half
\* to the even one
RoundPct(top_count, total_sessions) ==
  LET q == (100 * top_count) \div total_sessions
      r == (100 * top_count) % total_sessions
  IN  IF 2 * r < total_sessions THEN q
      ELSE IF 2 * r > total_sessions THEN q + 1
      ELSE IF q % 2 = 0 THEN q ELSE q + 1

\* the rules of get_smart_recommendations on the user's rows and the
\* apparatus read from them
RulesFired(user_df, apparatus_used) ==
  LET app_counts == Range(apparatus_used)
      unused == SelectSeq(core_apparatus, LAMBDA a : a \notin app_counts)
      most_used == MostCommon(apparatus_used)
      total_sessions == Len(user_df)
      themes_used == {user_df[i].Theme : i \in {j \in DOMAIN user_df : user_df[j].Theme # ""}}
      missing_themes == SelectSeq(key_themes, LAMBDA t : t \notin themes_used)
      gap == IF unused # <<>> THEN <<Message("Apparatus gap", unused, 0)>> ELSE <<>>
      variety ==
        IF most_used # <<>> /\ total_sessions > VarietyMinSessions
             /\ 100 * most_used[1][2] > VarietyPct * total_sessions
          THEN <<Message("Variety check", <<most_used[1][1]>>,
                         RoundPct(most_used[1][2], total_sessions))>>
          ELSE <<>>
      theme_gap == IF missing_themes # <<>>
                     THEN <<Message("Theme gap", missing_themes, 0)>> ELSE <<>>
      progression == IF total_sessions >= ProgressionSessions
                       THEN <<Message("Progression idea", <<>>, 0)>> ELSE <<>>
      mat == IF total_sessions >= MatSessions /\ "Mat" \notin app_counts
               THEN <<Message("Mat work builds intelligence", <<>>, 0)>> ELSE <<>>
      rotation == IF total_sessions >= RotationMinSessions
                       /\ total_sessions < RotationMaxSessions
                    THEN <<Message("Programming tip", <<>>, 0)>> ELSE <<>>
  IN  gap \o variety \o theme_gap \o progression \o mat \o rotation

\* the list recs of get_smart_recommendations as the rules leave it, before
\* the default message and the cap
FiredRecs(history_df, for_user) ==
  LET user_df == SelectSeq(history_df, LAMBDA row : row.User = for_user)
  IN  CHOOSE recs \in
        {RulesFired(user_df, apparatus_used) :
           apparatus_used \in
             {ConcatAll([i \in DOMAIN user_df |-> RowApparatus(user_df[i])], 1)}} : TRUE

\* the end of get_smart_recommendations: the default for an empty recs, and
\* recs[:5]
ReturnRecs(recs) ==
  IF recs = <<>> THEN <<Message("Your programming looks well-rounded", <<>>, 0)>>
  ELSE SubSeq(recs, 1, Min(MaxRecs, Len(recs)))

get_smart_recommendations(history_df, for_user) ==
  LET user_df == SelectSeq(history_df, LAMBDA row : row.User = for_user)
  IN  IF history_df = <<>> THEN <<Message("Start with a 30-min Reformer session", <<>>, 0)>>
      ELSE IF user_df = <<>> THEN <<Message("No workouts logged yet", <<>>, 0)>>
      ELSE CHOOSE out \in {ReturnRecs(recs) : recs \in {FiredRecs(history_df, for_user)}} : TRUE

\* the sessions whose rows the sheet is filled with: who saved, and the form
\* the saved plan was generated from
LoggedSessions ==
  << [user |-> "Alyssa", duration |-> 30, apparatus |-> "Reformer", theme |-> "Core"],
     [user |-> "Alyssa", duration |-> 30, apparatus |-> "Mat", theme |-> "Flexibility"],
     [user |-> "Alyssa", duration |-> 30, apparatus |-> "Chair", theme |-> "Upper Body"],
     [user |-> "Alyssa", duration |-> 30, apparatus |-> "Cadillac", theme |-> "Lower Body"] >>

\* for each of them the JSON text of a plan generate_workout returns
LoggedPlans ==
  [k \in DOMAIN LoggedSessions |->
     LET s == LoggedSessions[k]
     IN  workout_to_json(CHOOSE w \in generate_workout(s.duration, s.apparatus, s.theme,
                                                        "Moderate (2-3)") : TRUE)]

\* the row Save to History writes for the plan of session k
LoggedRow(k) ==
  LET s == LoggedSessions[k]
  IN  [Date |-> today, User |-> s.user, Theme |-> s.theme, Duration |-> s.duration,
       Full_JSON_Data |-> LoggedPlans[k], Rating |-> DefaultRating, Notes |-> ""]

\* the place in LoggedSessions of the session that wrote a row
SessionOf(row) ==
  CHOOSE k \in DOMAIN LoggedSessions :
    /\ LoggedSessions[k].user = row.User
    /\ LoggedSessions[k].theme = row.Theme

\* the sheet gains the row of one more saved session; rows are appended in
\* the order of LoggedSessions, equal ones any number of times
LogSession(k) ==
  /\ Len(log) < MaxHistory
  /\ IF log = <<>> THEN TRUE ELSE SessionOf(log[Len(log)]) <= k
  /\ log' = Append(log, LoggedRow(k))
  /\ UNCHANGED <<user, form, workout, workout_meta, view, current_index, swaps,
                 swap_result, workout_rated, today,
                 favorites, workout_ref, catalog_writes, ai_card>>

(***************************************************************************)
(* Navigation, history and favorites (app.py)                              *)
(***************************************************************************)
\* the views the navigation buttons and the sidebar's Help button lead to
NavViews == {"dashboard", "history", "ai_chat", "help"}

\* DASHBOARD, HISTORY, AI COACH, Help & Features
Navigate(v) ==
  /\ v \in NavViews
  /\ view' = v
  /\ ai_card' = None
  /\ UNCHANGED <<user, form, workout, workout_meta, current_index, swaps, swap_result,
                 workout_rated, log, today, favorites, workout_ref, catalog_writes>>

\* GENERATE: back to the generator with no plan
NavGenerate ==
  /\ view' = "generator"
  /\ workout' = None
  /\ workout_ref' = NewList(favorites)
  /\ ai_card' = None
  /\ UNCHANGED <<user, form, workout_meta, current_index, swaps, swap_result,
                 workout_rated, log, today, favorites, catalog_writes>>

\* favorites kept in a session
MaxFavorites == 1

\* generator view: Save as Favorite; "exercises" is the live list itself
SaveAsFavorite ==
  /\ view = "generator"
  /\ workout # <<>>
  /\ Len(favorites) < MaxFavorites
  /\ LET meta == workout_meta
         w_theme == Get(meta, "theme", "Full Body")
         fav_data == [name |-> <<w_theme, Get(meta, "apparatus", ""),
                                 Get(meta, "duration", "")>>,
                      date_saved |-> today, meta |-> meta,
                      exercises |-> workout, ref |-> workout_ref]
     IN  favorites' = Append(favorites, fav_data)
  /\ ai_card' = None
  /\ UNCHANGED <<user, form, workout, workout_meta, view, current_index, swaps,
                 swap_result, workout_rated, log, today, workout_ref, catalog_writes>>

\* dashboard: the play button of the favorite at index fi
LoadFavorite(fi) ==
  /\ view = "dashboard"
  /\ fi \in 0..(Len(favorites) - 1)
  /\ workout' = favorites[fi + 1].exercises
  /\ workout_ref' = favorites[fi + 1].ref
  /\ workout_meta' = favorites[fi + 1].meta
  /\ view' = "player"
  /\ current_index' = 0
  /\ ai_card' = None
  /\ UNCHANGED <<user, form, swaps, swap_result, workout_rated, log, today,
                 favorites, catalog_writes>>

\* history view: Repeat on the row at index r of the user's sessions
Repeat(r) ==
  /\ view = "history"
  /\ r \in 0..(Len(log) - 1)
  /\ log[r + 1].User = user
  /\ workout' = json_to_workout(log[r + 1].Full_JSON_Data)
  /\ workout_ref' = NewList(favorites)
  /\ view' = "player"
  /\ ai_card' = None
  /\ UNCHANGED <<user, form, workout_meta, current_index, swaps, swap_result,
                 workout_rated, log, today, favorites, catalog_writes>>

(***************************************************************************)
(* Generator view: the swap panel's Browse & Search and AI Suggest tabs    *)
(***************************************************************************)
\* a button that stays True in the runs started by later clicks
ButtonSticky(clicked, key) == TRUE

\* the value st.button returns for the widget of this key, in the script run
\* that the click on the widget `clicked` started: True for that widget only
Button(clicked, key) == clicked = key

\* options of the Phase and Apparatus select boxes
PhaseFilters == <<"All", "Warmup", "Foundation", "Peak", "Cooldown">>

AppFilters == <<"All">> \o APPARATUS_OPTIONS

\* the list behind the select box of tab 2, for an empty search text
BrowseFiltered(plan, phase_filter, app_filter) ==
  LET used_slugs == {plan[j].slug : j \in DOMAIN plan}
  IN  SelectSeq(EXERCISE_DB, LAMBDA db_ex :
        /\ db_ex.slug \notin used_slugs
        /\ (phase_filter # "All" => db_ex.phase = lower(phase_filter))
        /\ (app_filter # "All" => db_ex.apparatus = app_filter))

\* exercises of the select box the explored picks are taken from
PickWidth == 2

\* tab 2: Use this exercise, on slot i with the chosen filters and the
\* exercise at index sel of the select box
BrowsePick(i, phase_filter, app_filter, sel) ==
  /\ view = "generator"
  /\ workout # <<>>
  /\ i \in 0..(Len(workout) - 1)
  /\ swaps < MaxSwaps
  /\ phase_filter \in Range(PhaseFilters)
  /\ app_filter \in Range(AppFilters)
  /\ LET ex == workout[i + 1]
         filtered == BrowseFiltered(workout, phase_filter, app_filter)
     IN  /\ sel \in 0..(Len(filtered) - 1)
         /\ LET preview == filtered[sel + 1]
                entry == Entry(preview, capitalize(ex.phase_label))
            IN  workout' = [workout EXCEPT ![i + 1] = entry]
  /\ swaps' = swaps + 1
  /\ favorites' = SeenByFavorites(favorites, workout_ref, workout')
  /\ ai_card' = None
  /\ UNCHANGED <<user, form, workout_meta, view, current_index, swap_result,
                 workout_rated, log, today, workout_ref, catalog_writes>>

\* a slug that is not in the catalog
UnknownSlug == "not_in_the_catalog"

\* replies of the AI explored for slot i of a plan: the slug of the entry in
\* the next slot, the first catalog exercise the prompt lists, and a slug of
\* no exercise
AIReplies(plan, i) ==
  {plan[((i + 1) % Len(plan)) + 1].slug}
    \cup {e.slug : e \in Range(Prefix(BrowseFiltered(plan, "All", "All"), 1))}
    \cup {UnknownSlug}

\* tab 3 in the script run started by a click on the widget `clicked`, with a
\* request typed in and, if the model is asked, its reply naming suggested_slug
AISuggestRun(i, clicked, suggested_slug) ==
  /\ view = "generator"
  /\ workout # <<>>
  /\ i \in 0..(Len(workout) - 1)
  /\ LET ex == workout[i + 1]
         found == SelectSeq(EXERCISE_DB, LAMBDA db_ex : db_ex.slug = suggested_slug)
         suggested_ex == IF found = <<>> THEN None ELSE Some(found[1])
     IN  IF Button(clicked, "ai_go")
           THEN IF suggested_ex # None
                  THEN IF Button(clicked, "ai_use")
                         THEN /\ workout' =
                                   [workout EXCEPT ![i + 1] =
                                      Entry(suggested_ex[1], capitalize(ex.phase_label))]
                              /\ ai_card' = None
                         ELSE /\ ai_card' = Some([slot |-> i, slug |-> suggested_ex[1].slug])
                              /\ UNCHANGED workout
                  ELSE /\ ai_card' = None
                       /\ UNCHANGED workout
           ELSE /\ ai_card' = None
                /\ UNCHANGED workout
  /\ favorites' = SeenByFavorites(favorites, workout_ref, workout')
  /\ UNCHANGED <<user, form, workout_meta, view, current_index, swaps, swap_result,
                 workout_rated, log, today, workout_ref, catalog_writes>>

\* tab 3: Get AI suggestion on slot i
AIGetSuggestion(i) ==
  \E suggested_slug \in AIReplies(workout, i) : AISuggestRun(i, "ai_go", suggested_slug)

\* tab 3: Use this, on the suggestion shown
AIUseThis ==
  /\ ai_card # None
  /\ \E suggested_slug \in AIReplies(workout, ai_card[1].slot) :
       AISuggestRun(ai_card[1].slot, "ai_use", suggested_slug)

(***************************************************************************)
(* The catalog at runtime                                                  *)
(***************************************************************************)
\* the element a caller appends to a list of a plan entry
Edit == "(edited)"

\* the catalog record with a slug
BySlug(slug) == EXERCISE_DB[CHOOSE k \in DOMAIN EXERCISE_DB : EXERCISE_DB[k].slug = slug]

\* the entries of a plan that hold an appended element
Edited(plan) ==
  {j \in DOMAIN plan : Edit \in Range(plan[j].cues) \cup Range(plan[j].themes)}

\* a caller appends to the cues or themes list of the entry at index i, an
\* entry that to_dict built (generate_workout, smart_swap); the append
\* lands in the catalog record as well when the list is the record's own
EditEntry(i, field) ==
  /\ workout # <<>>
  /\ i \in 0..(Len(workout) - 1)
  /\ field \in {"cues", "themes"}
  /\ (i + 1) \notin Edited(workout)
  /\ Cardinality(Edited(workout)) < MaxEdits
  /\ workout' = [workout EXCEPT ![i + 1][field] = Append(@, Edit)]
  /\ favorites' = SeenByFavorites(favorites, workout_ref, workout')
  /\ catalog_writes' =
       catalog_writes \cup
         IF field \in ToDictShares(BySlug(workout[i + 1].slug))
           THEN {[slug |-> workout[i + 1].slug, field |-> field]} ELSE {}
  /\ UNCHANGED <<user, form, workout_meta, view, current_index, swaps, swap_result,
                 workout_rated, log, today, workout_ref, ai_card>>

\* EXERCISE_DB as the writes so far have left it
Catalog ==
  [k \in DOMAIN EXERCISE_DB |->
     LET e == EXERCISE_DB[k]
     IN  [f \in DOMAIN e |->
            IF [slug |-> e.slug, field |-> f] \in catalog_writes
              THEN Append(e[f], Edit) ELSE e[f]]]

(***************************************************************************)
(* Specifications                                                          *)
(***************************************************************************)
Next ==
  \/ Generate
  \/ \E i \in 0..(Len(workout) - 1) : SwapRandomly(i)
  \/ StartWorkout
  \/ PrevExercise
  \/ NextExercise
  \/ SwapThisExercise
  \/ BackToOverview

\* the session: generator and player views
Spec == Init /\ [][Next]_vars

\* one call of generate_workout for every request of the form
GenerateOnce == workout = <<>> /\ Generate

SpecGen == InitGen /\ [][GenerateOnce]_vars

\* a plan in the generator view: generated, then swapped slot by slot
NextPlan ==
  \/ Generate
  \/ \E i \in 0..(Len(workout) - 1) : SwapRandomly(i)

SpecPlan == Init /\ [][NextPlan]_vars

\* a session whose form asks for a short Chair plan
InitLog ==
  /\ form = [duration |-> 30, apparatus |-> "Chair", difficulty |-> "All Levels",
             theme |-> "Core", energy |-> "Gentle (1-2)"]
  /\ SessionDefaults

\* sessions saved from the overview over the days
SpecStreak == InitLog /\ [][GenerateOnce \/ Tick \/ SaveToHistory]_vars

\* a plan saved from the overview, then played to the end and rated
SpecRating ==
  InitLog /\ [][SelectUser \/ GenerateOnce \/ SaveToHistory \/ StartWorkout
                  \/ NextExercise \/ Finish \/ SaveAndRate]_vars

\* arguments of generate_workout beyond what the form offers: short positive
\* durations, an apparatus, a theme and an energy label that are not listed
CallForms ==
  [duration : {1, 5, 12, 30, 60},
   apparatus : Range(APPARATUS_OPTIONS) \cup {"Tower"},
   difficulty : {"All Levels"},
   theme : Range(THEMES) \cup {"Cardio"},
   energy : DOMAIN ENERGY_LEVELS \cup {"Extreme (5+)"}]

InitCall ==
  /\ form \in CallForms
  /\ SessionDefaults

\* generate_workout called once with such arguments
SpecCall == InitCall /\ [][GenerateOnce]_vars

\* the sheet as earlier sessions left it, read by the recommendations
SpecRecs == InitLog /\ [][\E k \in DOMAIN LoggedSessions : LogSession(k)]_vars

\* a session on a sheet that holds a Chair plan of an earlier session; the
\* form asks for a longer Cadillac plan
InitLibrary ==
  /\ form = [duration |-> 50, apparatus |-> "Cadillac", difficulty |-> "All Levels",
             theme |-> "Full Body", energy |-> "Moderate (2-3)"]
  /\ user = USER_PROFILES[1]
  /\ workout = <<>>
  /\ workout_meta = [k \in {} |-> ""]
  /\ view = "generator"
  /\ current_index = 0
  /\ swaps = 0
  /\ swap_result = None
  /\ workout_rated = FALSE
  /\ today = 0
  /\ log = <<LoggedRow(3)>>
  /\ favorites = <<>>
  /\ workout_ref = 0
  /\ ai_card = None
  /\ catalog_writes = {}

NextLibrary ==
  \/ Generate
  \/ StartWorkout
  \/ PrevExercise
  \/ NextExercise
  \/ BackToOverview
  \/ \E v \in NavViews : Navigate(v)
  \/ NavGenerate
  \/ SaveAsFavorite
  \/ \E fi \in 0..(Len(favorites) - 1) : LoadFavorite(fi)
  \/ \E r \in 0..(Len(log) - 1) : Repeat(r)

\* generating and playing plans, saving and loading favorites, repeating
\* sessions of the sheet
SpecLibrary == InitLibrary /\ [][NextLibrary]_vars

NextFavorites ==
  \/ GenerateOnce
  \/ SaveAsFavorite
  \/ \E i \in 0..(Len(workout) - 1) : SwapRandomly(i)
  \/ \E v \in NavViews : Navigate(v)
  \/ \E fi \in 0..(Len(favorites) - 1) : LoadFavorite(fi)
  \/ SwapThisExercise

\* a plan saved as a favorite, swapped in the overview, loaded back from the
\* dashboard and swapped in the player
SpecFavorites == InitLog /\ [][NextFavorites]_vars

\* one plan generated, saved once to the sheet, started and swapped in the
\* player, its entries changed by the caller
SpecCatalog ==
  InitLog /\ [][GenerateOnce \/ (log = <<>> /\ SaveToHistory) \/ StartWorkout
                  \/ SwapThisExercise
                  \/ \E i \in 0..(Len(workout) - 1), field \in {"cues", "themes"} :
                       EditEntry(i, field)]_vars

\* a direct call smart_swap(workout, index), the index not checked by any
\* caller; a call that raises leaves IndexError as its outcome
CallSmartSwap(index) ==
  /\ workout # <<>>
  /\ swaps < MaxSwaps
  /\ \E new_ex \in smart_swap(workout, index) :
       /\ swap_result' = new_ex
       /\ workout' = IF new_ex # IndexError
                       THEN smart_swap_workout(workout, index) ELSE workout
  /\ swaps' = swaps + 1
  /\ UNCHANGED <<user, form, workout_meta, view, current_index, workout_rated,
                 log, today,
                 favorites, workout_ref, catalog_writes, ai_card>>

\* the indices tried by direct calls: the plan's own and IndexMargin beyond
\* Python's wrap-around range on either side
CallIndices(plan) == (-Len(plan) - IndexMargin)..(Len(plan) - 1 + IndexMargin)

\* smart_swap called directly on a generated plan
SpecSwapCall ==
  Init /\ [][GenerateOnce \/ \E index \in CallIndices(workout) : CallSmartSwap(index)]_vars

\* the filters the select boxes of tab 2 start with for an entry, and both
\* boxes set to "All"
BrowseFilters(ex) == {<<capitalize(ex.phase_label), ex.apparatus>>, <<"All", "All">>}

\* the buttons of the swap panel; with a suggestion on screen only its own
\* button is followed, any other button leads where it leads without the
\* suggestion
NextSwapPaths ==
  \/ GenerateOnce
  \/ ai_card = None /\ \E i \in 0..(Len(workout) - 1) : SwapRandomly(i)
  \/ /\ ai_card = None
     /\ \E i \in 0..(Len(workout) - 1) :
          \E filters \in BrowseFilters(workout[i + 1]), sel \in 0..(PickWidth - 1) :
             BrowsePick(i, filters[1], filters[2], sel)
  \/ ai_card = None /\ \E i \in 0..(Len(workout) - 1) : AIGetSuggestion(i)
  \/ AIUseThis

\* one plan and every way the swap panel of the overview replaces a slot
SpecSwapPaths == InitLog /\ [][NextSwapPaths]_vars

(***************************************************************************)
(* Properties                                                              *)
(***************************************************************************)
\* generate_workout has run for the request of the form
Generated == DOMAIN workout_meta # {}

NoDuplicateSlugs(plan) ==
  \A i, j \in DOMAIN plan : i # j => plan[i].slug # plan[j].slug

\* C1: for every duration, apparatus, theme and energy label of the form and
\* every explored shuffle, the plan returned by generate_workout holds no two
\* entries with the same slug.
C1_GeneratedPlanHasNoDuplicateSlugs ==
  Generated => NoDuplicateSlugs(workout)

\* a request whose theme is carried by exactly one exercise of a phase, so
\* that the phase is backfilled around it (Chair, Upper Body, foundation)
C1_Witness ==
  /\ Generated
  /\ form.apparatus = "Chair" /\ form.theme = "Upper Body"
  /\ Cardinality({i \in DOMAIN workout : workout[i].phase = "foundation"}) >= 2

\* the position of a phase label in Warmup, Foundation, Peak, Cooldown
PhaseRank(label) ==
  CASE label = "Warmup" -> 1
    [] label = "Foundation" -> 2
    [] label = "Peak" -> 3
    [] label = "Cooldown" -> 4

\* C2: in every plan returned by generate_workout no entry of an earlier phase
\* comes after an entry of a later phase, the phases being ordered Warmup,
\* Foundation, Peak, Cooldown.
C2_PhasesInOrder ==
  Generated =>
    \A i, j \in DOMAIN workout :
      i < j => PhaseRank(workout[i].phase_label) <= PhaseRank(workout[j].phase_label)

\* a plan with entries in all four phases
C2_Witness ==
  /\ Generated
  /\ {workout[i].phase_label : i \in DOMAIN workout}
        = {"Warmup", "Foundation", "Peak", "Cooldown"}
  /\ Len(workout) >= 8
\* C3: smart_swap never returns an exercise whose slug is already in the plan,
\* and a plan that is generated and then has the results of smart_swap written
\* into the swapped slots, from either view, never holds a slug twice.
C3_SwapKeepsSlugsUnique ==
  /\ [](NoDuplicateSlugs(workout))
  /\ [][(swaps' = swaps + 1 /\ swap_result' # None)
          => swap_result'[1].slug \notin Slugs(workout)]_vars

\* two swaps made, the last one from the player view and written to its slot
C3_Witness ==
  /\ swaps = 2
  /\ view = "player"
  /\ swap_result # None
  /\ workout[current_index + 1] = swap_result[1]

\* C4: a plan that was generated and then swapped any number of times is the
\* same after workout_to_json and json_to_workout: same entries, same order,
\* same values.
C4_JsonRoundTrip ==
  json_to_workout(workout_to_json(workout)) = workout

\* a generated plan with a swapped-in entry
C4_Witness ==
  /\ Generated
  /\ swaps >= 1
  /\ swap_result # None
  /\ \E i \in DOMAIN workout : workout[i] = swap_result[1]

\* C5: for every plan, the empty one included, and every theme the score of
\* analyze_workout_balance is an integer from 0 to 100.
C5_ScoreInRange ==
  \A t \in Range(THEMES) :
    analyze_workout_balance(workout, t).score \in 0..100

\* a swapped plan that draws penalties under some theme
C5_Witness ==
  /\ workout # <<>>
  /\ swaps >= 1
  /\ \E t \in Range(THEMES) : analyze_workout_balance(workout, t).score <= 85


(***************************************************************************)
(* Streaks                                                                 *)
(***************************************************************************)
\* the distinct dates of the sessions of user u
SessionDates(u) == {log[i].Date : i \in {j \in DOMAIN log : log[j].User = u}}

\* every date of D from a up to, not including, b is followed within 3 days
Unbroken(D, a, b) ==
  \A d \in D : (a <= d /\ d < b) => \E e \in D : d < e /\ e <= d + 3

\* the number of dates in the longest stretch of D with no gap of 4 or more
LongestRun(D) ==
  LET lengths == {Cardinality({d \in D : p[1] <= d /\ d <= p[2]}) :
                    p \in {q \in D \X D : q[1] <= q[2] /\ Unbroken(D, q[1], q[2])}}
  IN  IF D = {} THEN 0 ELSE CHOOSE m \in lengths : \A n \in lengths : n <= m

ScenarioGenerated ==
  /\ Generated
  /\ form.duration = 50 /\ form.apparatus = "Reformer"
  /\ form.theme = "Core" /\ form.energy = "Moderate (2-3)"

\* 10, 15, 15 and 10 minutes, in tenths
ScenarioBudget ==
  [Warmup |-> 100, Foundation |-> 150, Peak |-> 150, Cooldown |-> 100]

\* the minutes, in tenths, of the entries of the plan in the slot label
PhaseTotal(plan, label) ==
  LET slot == SelectSeq(plan, LAMBDA e : e.phase_label = label)
  IN  Sum([i \in DOMAIN slot |-> slot[i].duration_min], 1)

\* C7 as stated: every phase of the scenario's plan totals within 1 minute
\* of its budget, above or below, and no slug repeats.
C7_PhaseTotalsWithinOneMinute ==
  ScenarioGenerated =>
    /\ \A label \in DOMAIN ScenarioBudget :
         Abs(PhaseTotal(workout, label) - ScenarioBudget[label]) <= 10
    /\ NoDuplicateSlugs(workout)

\* C7: every phase of the scenario's plan totals at most 1 minute over its
\* budget of 10, 15, 15, 10 minutes (it may fall further below), and no slug
\* repeats.
C7_PhaseTotalsAtMostOneMinuteOver ==
  ScenarioGenerated =>
    /\ \A label \in DOMAIN ScenarioBudget :
         PhaseTotal(workout, label) <= ScenarioBudget[label] + 10
    /\ NoDuplicateSlugs(workout)

\* a plan of the scenario whose foundation runs over its budget and whose
\* cooldown falls 2.5 minutes short of its own
C7_Witness ==
  /\ ScenarioGenerated
  /\ PhaseTotal(workout, "Foundation") > 150
  /\ PhaseTotal(workout, "Cooldown") = 75

(***************************************************************************)
(* Every phase populated                                                   *)
(***************************************************************************)
\* the apparatus has no exercise of the phase that lists the theme
ThemeMissesPhase(apparatus, theme, phase) ==
  \A i \in DOMAIN EXERCISE_DB :
    ~(/\ EXERCISE_DB[i].apparatus = apparatus
      /\ EXERCISE_DB[i].phase = phase
      /\ In(theme, EXERCISE_DB[i].themes))

HasAllPhases(plan) ==
  \A label \in {"Warmup", "Foundation", "Peak", "Cooldown"} :
    \E i \in DOMAIN plan : plan[i].phase_label = label

\* C8: for every apparatus, theme, energy level and duration of 30 to 90
\* minutes the generated plan has an entry in each of the four phases.
C8_EveryPhasePopulated == Generated => HasAllPhases(workout)

\* a Chair plan for a theme no Chair exercise of some phase lists
C8_Witness ==
  /\ Generated
  /\ form.apparatus = "Chair"
  /\ \E k \in DOMAIN PHASE_ORDER :
       ThemeMissesPhase("Chair", form.theme, PHASE_ORDER[k])
  /\ HasAllPhases(workout)

(***************************************************************************)
(* No replacement available                                                *)
(***************************************************************************)
\* the plan does not hold the slug of the catalog exercise e
Unused(plan, e) == \A j \in DOMAIN plan : plan[j].slug # e.slug

\* no unused exercise shares the category and phase of the slot at the
\* 0-based index i, nor its phase and apparatus with intensity within 1
NoReplacement(plan, i) ==
  LET cur == plan[i + 1]
  IN  \A k \in DOMAIN EXERCISE_DB :
        LET e == EXERCISE_DB[k]
        IN  /\ ~(e.phase = cur.phase /\ e.category = cur.category /\ Unused(plan, e))
            /\ ~(/\ e.phase = cur.phase
                  /\ e.apparatus = cur.apparatus
                  /\ e.energy - cur.energy \in {-1, 0, 1}
                  /\ Unused(plan, e))

\* C9: a swap of a slot with no replacement in either tier returns None and
\* leaves the plan as it was, from the overview and from the player.
C9_NoReplacementLeavesPlan ==
  [][swaps' = swaps + 1 =>
       \A i \in 0..(Len(workout) - 1) :
         (/\ NoReplacement(workout, i)
          /\ SwapRandomly(i) \/ (i = current_index /\ SwapThisExercise))
           => (swap_result' = None /\ workout' = workout)]_vars

\* a swap was asked for a slot with no replacement and returned None
C9_Witness ==
  /\ swaps > 0
  /\ swap_result = None
  /\ \E i \in 0..(Len(workout) - 1) : NoReplacement(workout, i)

(***************************************************************************)
(* Mean rating                                                             *)
(***************************************************************************)
\* the ratings, 1 to 5, of the sessions of user u that carry one
RatingsGiven(u) ==
  LET rated == SelectSeq(log, LAMBDA row : row.User = u /\ row.Rating \in 1..5)
  IN  [i \in DOMAIN rated |-> rated[i].Rating]

\* C10 as stated: avg_rating, in tenths, is the mean of the ratings given
\* rounded to one decimal, and 0 when no session is rated; a session saved
\* without a rating does not count.
C10_AvgRatingIsMeanOfRatingsGiven ==
  \A u \in Users :
    LET given == RatingsGiven(u)
        avg_rating == calculate_progress_stats(log, u, today).avg_rating
    IN  IF given = <<>> THEN avg_rating = 0
        ELSE 2 * Abs(10 * Sum(given, 1) - avg_rating * Len(given)) <= Len(given)


Labels(plan) == [j \in DOMAIN plan |-> plan[j].phase_label]

\* C12: the entry a swap returns carries the phase_label of the slot it is
\* written to, and a swap leaves the plan's length and sequence of
\* phase_labels as they were.
C12_SwapKeepsPhaseLabels ==
  [][swaps' = swaps + 1 =>
       /\ Labels(workout') = Labels(workout)
       /\ swap_result' # None =>
            \E j \in DOMAIN workout :
              /\ workout'[j] = swap_result'[1]
              /\ swap_result'[1].phase_label = workout[j].phase_label]_vars

\* two swaps were applied and the last one changed a Peak slot
C12_Witness ==
  /\ swaps = MaxSwaps
  /\ swap_result # None
  /\ swap_result[1].phase_label = "Peak"
  /\ \E j \in DOMAIN workout : workout[j] = swap_result[1]

\* C13 as stated: a call of smart_swap with an index outside
\* 0 <= index < len(plan), negative indices included, ends in an error.
C13_InvalidIndexFails ==
  [][\A index \in CallIndices(workout) :
       (CallSmartSwap(index) /\ ~(0 <= index /\ index < Len(workout)))
         => swap_result' = IndexError]_vars


(***************************************************************************)
(* current streak                                                          *)
(***************************************************************************)
\* the most recent of the dates D
MostRecent(D) == CHOOSE m \in D : \A d \in D : d <= m

\* the dates of the run of D that ends at its most recent date
FinalRun(D) == {d \in D : Unbroken(D, d, MostRecent(D))}

RuleRank(rule) ==
  CASE rule = "Apparatus gap" -> 1
    [] rule = "Variety check" -> 2
    [] rule = "Theme gap" -> 3
    [] rule = "Progression idea" -> 4
    [] rule = "Mat work builds intelligence" -> 5
    [] rule = "Programming tip" -> 6
    [] OTHER -> 0

\* the number of rows a user has in a sheet
SessionCount(history_df, u) == Cardinality({i \in DOMAIN history_df : history_df[i].User = u})

\* the messages for user u from history_df: between 1 and 5; either one
\* message of no rule, or messages of rules in the stated order, the
\* progression idea exactly from 5 sessions on, the Mat tip only from 10
\* sessions on, the rotation tip exactly for 3 to 9 sessions
RecsAsStated(history_df, u) ==
  \A recs \in {get_smart_recommendations(history_df, u)} :
    LET rules == {recs[i].rule : i \in DOMAIN recs}
        n == SessionCount(history_df, u)
    IN  /\ 1 <= Len(recs) /\ Len(recs) <= 5
        /\ \/ Len(recs) = 1 /\ RuleRank(recs[1].rule) = 0
           \/ /\ RuleRank(recs[1].rule) > 0
              /\ \A i \in 1..(Len(recs) - 1) :
                   RuleRank(recs[i].rule) < RuleRank(recs[i + 1].rule)
        /\ "Progression idea" \in rules <=> n >= 5
        /\ "Mat work builds intelligence" \in rules => n >= 10
        /\ "Programming tip" \in rules <=> (3 <= n /\ n <= 9)

\* C15: get_smart_recommendations returns at least 1 and at most 5 messages
\* for every log and user, in the rule order apparatus gap, variety check,
\* theme gap, progression (5 sessions or more), Mat tip (10 or more),
\* rotation tip (3 to 9); for an empty log it returns exactly the cold-start
\* message.
C15_RecommendationsCappedAndOrdered ==
  \A u \in Users :
    /\ RecsAsStated(log, u)
    /\ log = <<>> =>
         get_smart_recommendations(log, u) =
           <<Message("Start with a 30-min Reformer session", <<>>, 0)>>

\* ten Reformer / Core sessions: apparatus gap, variety check, theme gap,
\* progression idea and the Mat tip, five messages in this order
C15_Witness ==
  /\ Len(log) = 10
  /\ \A i \in DOMAIN log : log[i].User = user /\ log[i].Theme = "Core"
  /\ LET recs == get_smart_recommendations(log, user)
     IN  [i \in DOMAIN recs |-> recs[i].rule] =
           <<"Apparatus gap", "Variety check", "Theme gap", "Progression idea",
             "Mat work builds intelligence">>


(***************************************************************************)
(* The generator on any arguments                                          *)
(***************************************************************************)
\* the entries of a plan that carry the label of a phase
PhaseEntries(plan, phase) == SelectSeq(plan, LAMBDA e : e.phase_label = capitalize(phase))

\* the slugs a plan holds in the phases before the k-th
UsedBefore(plan, k) ==
  {plan[i].slug : i \in {j \in DOMAIN plan : PhaseRank(plan[j].phase_label) < k}}

\* the candidates the k-th phase of the plan in workout was filled from
PhaseCandidates(k) ==
  LET band == IF workout_meta.energy \in DOMAIN ENERGY_LEVELS
                THEN ENERGY_LEVELS[workout_meta.energy] ELSE <<1, 5>>
      pool == ThemePool(get_exercises_for_apparatus(workout_meta.apparatus),
                        workout_meta.theme)
  IN  Candidates(pool, PHASE_ORDER[k], UsedBefore(workout, k), band[1], band[2])

\* C16: generate_workout returns a plan for every positive duration, whatever
\* the apparatus, theme and energy label; a phase none of whose candidates
\* fits within budget + 1.0 on its own contributes no entry, and with no
\* exercise to choose from the plan returned is the empty list.
C16_GeneratorNeverFails ==
  /\ ~Generated =>
       generate_workout(form.duration, form.apparatus, form.theme, form.energy) # {}
  /\ Generated =>
       /\ \A k \in DOMAIN PHASE_ORDER :
            LET candidates == PhaseCandidates(k)
                budget == (workout_meta.duration * PHASE_RATIOS[PHASE_ORDER[k]]) \div 10
            IN  (\A i \in DOMAIN candidates : candidates[i].duration_min > budget + 10)
                  => PhaseEntries(workout, PHASE_ORDER[k]) = <<>>
       /\ get_exercises_for_apparatus(workout_meta.apparatus) = <<>> => workout = <<>>

\* a 5-minute plan of a listed apparatus with an entry in one phase and none
\* in another, whose candidates are all too long
C16_Witness ==
  /\ Generated
  /\ workout_meta.duration = 5
  /\ workout # <<>>
  /\ \E k \in DOMAIN PHASE_ORDER :
       /\ PhaseCandidates(k) # <<>>
       /\ PhaseEntries(workout, PHASE_ORDER[k]) = <<>>


(***************************************************************************)
(* Phase budgets                                                           *)
(***************************************************************************)
\* the minutes, in tenths, of a whole plan
PlanTotal(plan) == Sum([i \in DOMAIN plan |-> plan[i].duration_min], 1)

\* the share of the requested minutes a phase may use, in percent
BudgetPct == [Warmup |-> 20, Foundation |-> 30, Peak |-> 30, Cooldown |-> 20]

\* C17: in every generated plan the durations of each phase sum to at most
\* its budget (20, 30, 30, 20 percent of the requested minutes) plus 1.0
\* minute, so the whole plan lasts at most the requested minutes plus 4.
C17_PhaseWithinBudgetPlusOne ==
  Generated =>
    /\ \A label \in DOMAIN BudgetPct :
         10 * PhaseTotal(workout, label) <= form.duration * BudgetPct[label] + 100
    /\ PlanTotal(workout) <= 10 * form.duration + 40

\* a plan with a phase filled to exactly its budget plus 1.0 minute, and
\* lasting longer than the minutes requested
C17_Witness ==
  /\ Generated
  /\ \E label \in DOMAIN BudgetPct :
       10 * PhaseTotal(workout, label) = form.duration * BudgetPct[label] + 100
  /\ PlanTotal(workout) > 10 * form.duration


(***************************************************************************)
(* The fill of a phase                                                     *)
(***************************************************************************)
\* the candidates of the k-th phase that the plan in workout does not hold
NotAdmitted(k) ==
  LET candidates == PhaseCandidates(k)
  IN  SelectSeq(candidates, LAMBDA c : c.slug \notin Slugs(workout))

\* C18: the fill of a phase goes through the whole shuffled list and does not
\* stop at the first exercise it rejects: when the phase is finished, every
\* candidate that was not admitted would take the phase's accumulated time
\* above its budget plus 1.0 minute.
C18_RejectedCandidatesDoNotFit ==
  Generated =>
    \A k \in DOMAIN PHASE_ORDER :
      LET label == capitalize(PHASE_ORDER[k])
          rejected == NotAdmitted(k)
          phase_time == PhaseTotal(workout, label)
      IN  \A i \in DOMAIN rejected :
            10 * (phase_time + rejected[i].duration_min)
              > form.duration * BudgetPct[label] + 100

\* a phase that holds entries and left out two or more of its candidates
C18_Witness ==
  /\ Generated
  /\ \E k \in DOMAIN PHASE_ORDER :
       /\ Len(NotAdmitted(k)) >= 2
       /\ Len(PhaseEntries(workout, PHASE_ORDER[k])) >= 2


(***************************************************************************)
(* The energy soft filter                                                  *)
(***************************************************************************)
\* the intensity band of the plan in workout
Band ==
  IF workout_meta.energy \in DOMAIN ENERGY_LEVELS
    THEN ENERGY_LEVELS[workout_meta.energy] ELSE <<1, 5>>

InBand(e) == Band[1] <= e.energy /\ e.energy <= Band[2]

\* the exercises of the k-th phase left in the pool when the phase was
\* filled, whatever their intensity
Unfiltered(k) ==
  LET pool == ThemePool(get_exercises_for_apparatus(workout_meta.apparatus),
                        workout_meta.theme)
      used == UsedBefore(workout, k)
  IN  SelectSeq(pool, LAMBDA e : e.phase = PHASE_ORDER[k] /\ e.slug \notin used)

\* every exercise of s the plan does not hold would take the k-th phase
\* above its budget plus 1.0 minute
FilledFrom(s, k) ==
  LET label == capitalize(PHASE_ORDER[k])
      phase_time == PhaseTotal(workout, label)
  IN  \A i \in DOMAIN s :
        \/ s[i].slug \in Slugs(workout)
        \/ 10 * (phase_time + s[i].duration_min) > form.duration * BudgetPct[label] + 100

\* C19: in foundation and peak, when 2 or more candidates have their
\* intensity in the band, every entry admitted to the phase is in the band;
\* when fewer than 2 have, the phase is filled from the unfiltered
\* candidates. Warmup and cooldown are filled from the unfiltered candidates
\* whatever the band.
C19_EnergyFilterIsSoft ==
  Generated =>
    \A k \in DOMAIN PHASE_ORDER :
      LET unfiltered == Unfiltered(k)
          in_band == SelectSeq(unfiltered, InBand)
          entries == PhaseEntries(workout, PHASE_ORDER[k])
      IN  IF PHASE_ORDER[k] \in {"foundation", "peak"} /\ Len(in_band) >= 2
            THEN /\ \A i \in DOMAIN entries : InBand(entries[i])
                 /\ FilledFrom(in_band, k)
            ELSE /\ \A i \in DOMAIN entries :
                      \E j \in DOMAIN unfiltered : unfiltered[j].slug = entries[i].slug
                 /\ FilledFrom(unfiltered, k)

\* a peak with a single candidate in the band, filled with an exercise
\* outside the band, after a warmup that holds one outside the band too
C19_Witness ==
  /\ Generated
  /\ Len(SelectSeq(Unfiltered(3), InBand)) = 1
  /\ \E i \in DOMAIN workout : workout[i].phase_label = "Peak" /\ ~InBand(workout[i])
  /\ \E i \in DOMAIN workout : workout[i].phase_label = "Warmup" /\ ~InBand(workout[i])


(***************************************************************************)
(* The theme filter                                                        *)
(***************************************************************************)
\* the exercises of a phase in the apparatus-filtered pool that carry, or do
\* not carry, the theme of the plan in workout
PhaseOfPool(phase, carrying) ==
  SelectSeq(get_exercises_for_apparatus(workout_meta.apparatus),
            LAMBDA e : e.phase = phase /\ (In(workout_meta.theme, e.themes) <=> carrying))

\* C20: for a theme other than Full Body, a plan holds an exercise that does
\* not carry the theme only in a phase where fewer than 2 exercises of the
\* apparatus-filtered pool carry it, and then only one of the first 3
\* exercises of that phase that do not; with Full Body the whole
\* apparatus-filtered pool is eligible.
C20_NonThemeOnlyByBackfill ==
  Generated =>
    IF workout_meta.theme # "Full Body"
      THEN \A i \in DOMAIN workout :
             ~In(workout_meta.theme, workout[i].themes) =>
               LET others == PhaseOfPool(workout[i].phase, FALSE)
               IN  /\ Len(PhaseOfPool(workout[i].phase, TRUE)) < 2
                   /\ \E j \in 1..Min(3, Len(others)) : others[j].slug = workout[i].slug
      ELSE \A k \in DOMAIN PHASE_ORDER :
             LET phase == PHASE_ORDER[k]
                 whole == SelectSeq(get_exercises_for_apparatus(workout_meta.apparatus),
                                    LAMBDA e : e.phase = phase
                                                 /\ e.slug \notin UsedBefore(workout, k))
             IN  Unfiltered(k) = whole

\* a themed plan that holds an exercise carrying the theme and, in a phase
\* with fewer than 2 of those, a backfilled one that does not
C20_Witness ==
  /\ Generated
  /\ workout_meta.theme \in Range(THEMES) \ {"Full Body"}
  /\ \E i \in DOMAIN workout : In(workout_meta.theme, workout[i].themes)
  /\ \E i \in DOMAIN workout :
       /\ ~In(workout_meta.theme, workout[i].themes)
       /\ Len(PhaseOfPool(workout[i].phase, TRUE)) = 1


(***************************************************************************)
(* The two tiers of smart_swap                                             *)
(***************************************************************************)
\* the catalog exercise e is unused and has the category and phase of cur
InCategoryTier(plan, cur, e) ==
  e.category = cur.category /\ e.phase = cur.phase /\ Unused(plan, e)

\* e is unused and has the phase and apparatus of cur and an intensity at
\* most 1 away from it
InBroadTier(plan, cur, e) ==
  /\ e.phase = cur.phase /\ e.apparatus = cur.apparatus
  /\ e.energy - cur.energy \in {-1, 0, 1}
  /\ Unused(plan, e)

CategoryTierEmpty(plan, cur) ==
  \A k \in DOMAIN EXERCISE_DB : ~InCategoryTier(plan, cur, EXERCISE_DB[k])

LabelCount(plan, label) == Cardinality({i \in DOMAIN plan : plan[i].phase_label = label})

TagCount(plan, tag) == Cardinality({i \in DOMAIN plan : In(tag, plan[i].themes)})

\* the penalties the stated rules give a plan under a theme, rule by rule
StatedPenalties(plan, theme) ==
  << IF 100 * LabelCount(plan, "Warmup") < 10 * Len(plan) THEN 10 ELSE 0,
     IF 100 * LabelCount(plan, "Cooldown") < 10 * Len(plan) THEN 10 ELSE 0,
     IF theme # "Full Body" /\ TagCount(plan, theme) = 0 THEN 15 ELSE 0,
     IF TagCount(plan, "Upper Body") = 0 THEN 10 ELSE 0,
     IF TagCount(plan, "Lower Body") = 0 THEN 10 ELSE 0,
     IF TagCount(plan, "Core") = 0 THEN 15 ELSE 0,
     IF Cardinality({plan[i].category : i \in DOMAIN plan}) < 3 THEN 10 ELSE 0 >>

Confirmation ==
  "\\u2705 Well-balanced workout! Great mix of phases, body regions, and categories."

\* C22: for every non-empty plan and theme the balance score is 100 minus
\* the sum of the triggered penalties (10 light warmup, 10 light cooldown, 15
\* theme in no entry, 10 no Upper Body, 10 no Lower Body, 15 no Core, 10 fewer
\* than 3 categories), and the notes are the single positive confirmation
\* exactly when no penalty triggered.
C22_ScoreIsHundredLessPenalties ==
  workout # <<>> =>
    \A t \in Range(THEMES) :
      \A result \in {analyze_workout_balance(workout, t)} :
        LET stated == StatedPenalties(workout, t)
        IN  /\ result.score = 100 - Sum(stated, 1)
            /\ (result.notes = <<Confirmation>>) <=> (Sum(stated, 1) = 0)
            /\ Sum(stated, 1) > 0 =>
                 /\ Len(result.notes) = Cardinality({i \in DOMAIN stated : stated[i] > 0})
                 /\ \A i \in DOMAIN result.notes : result.notes[i] # Confirmation

\* a swapped plan that is confirmed under one theme and loses exactly the 15
\* points of the theme rule under another
C22_Witness ==
  /\ workout # <<>>
  /\ swaps >= 1
  /\ \E t \in Range(THEMES) : analyze_workout_balance(workout, t).notes = <<Confirmation>>
  /\ \E t \in Range(THEMES) : analyze_workout_balance(workout, t).score = 85

\* C24 as stated: a plan generated for one apparatus (not Mixed) holds only
\* entries of that apparatus, also after smart_swap replacements were applied.
C24_SwapsKeepApparatus ==
  (Generated /\ workout_meta.apparatus # "Mixed") =>
    \A j \in DOMAIN workout : workout[j].apparatus = workout_meta.apparatus

\* C30: after generate_workout and any applied smart_swap replacements, the
\* phase of every plan entry is the lower-cased phase_label of its slot.
C30_EntryPhaseIsSlotPhase ==
  \A j \in DOMAIN workout : workout[j].phase = lower(workout[j].phase_label)

\* two swaps were applied, the last one to a Warmup slot, and the plan now
\* holds an exercise of another apparatus than the one it was generated for
C30_Witness ==
  /\ swaps = MaxSwaps
  /\ swap_result # None
  /\ swap_result[1].phase_label = "Warmup"
  /\ \E j \in DOMAIN workout : workout[j] = swap_result[1]
  /\ \E j \in DOMAIN workout : workout[j].apparatus # workout_meta.apparatus

\* C29: for every log in which the user has at least one session, at least
\* one rule fires and at most five do: the list returned is the list of the
\* fired rules, never the well-rounded default and never cut by the cap.
C29_SomeRuleFiresAndNoneIsDropped ==
  \A u \in Users :
    SessionCount(log, u) >= 1 =>
      \A fired \in {FiredRecs(log, u)} :
        /\ fired # <<>>
        /\ Len(fired) <= MaxRecs
        /\ ReturnRecs(fired) = fired

\* ten sessions over all four apparatus and all four key themes, none of
\* them dominant: the progression idea is the only rule left to fire
C29_Witness ==
  /\ Len(log) = 10
  /\ \A i \in DOMAIN log : log[i].User = user
  /\ {log[i].Theme : i \in DOMAIN log} = Range(key_themes)
  /\ LET recs == get_smart_recommendations(log, user)
     IN  [i \in DOMAIN recs |-> recs[i].rule] = <<"Progression idea">>

\* the user's rows dated on or after a day
SessionsSince(history_df, u, day) ==
  Cardinality({i \in DOMAIN history_df :
                 history_df[i].User = u /\ history_df[i].Date >= day})

\* C25 as stated: this_week and this_month are the numbers of the user's
\* sessions dated in the current calendar week and month, two sessions of
\* one day counting as two.
C25_WeekAndMonthCountSessions ==
  \A u \in Users :
    \A stats \in {calculate_progress_stats(log, u, today)} :
      /\ stats.this_week = SessionsSince(log, u, WeekStart(today))
      /\ stats.this_month = SessionsSince(log, u, MonthStart(today))

\* what the code returns: the numbers of distinct days of the current week and
\* month on which the user has a session
C25_WeekAndMonthCountDays ==
  \A u \in Users :
    \A stats \in {calculate_progress_stats(log, u, today)} :
      /\ stats.this_week =
           Cardinality({log[i].Date : i \in {j \in DOMAIN log :
                          log[j].User = u /\ log[j].Date >= WeekStart(today)}})
      /\ stats.this_month =
           Cardinality({log[i].Date : i \in {j \in DOMAIN log :
                          log[j].User = u /\ log[j].Date >= MonthStart(today)}})

\* no two records of the catalog have the same slug
SlugsUnique ==
  \A i, j \in DOMAIN EXERCISE_DB : i # j => EXERCISE_DB[i].slug # EXERCISE_DB[j].slug

C27_PlayerIndexValid ==
  PlayerShown => (0 <= current_index /\ current_index < Len(workout))

\* C28 as stated: the exercise list stored in a saved favorite is not changed
\* by any later step, a swap on the live plan included, before or after the
\* favorite is loaded back.
C28_FavoriteKeepsItsExercises ==
  [][\A k \in DOMAIN favorites : favorites'[k].exercises = favorites[k].exercises]_vars

====
